---- MODULE Spec2Model ----
(***************************************************************************)
(* Model of the banana-sprite face animation pipeline.                     *)
(*                                                                         *)
(*   Spec        the FaceAnimator component (preview loop, video           *)
(*               generation effect, generateVideo, updateFrame and the     *)
(*               recorder's stop event) driven by the editor's handlers.   *)
(*   FairSpec    Spec with the fairness of the browser's timers.           *)
(*   SpecClassify classifyMouth over bounded volumes and thresholds.       *)
(*   SpecSmooth  smoothTransition folded over arbitrary target sequences.  *)
(*   SpecAnalyze analyzeAudioBuffer, one loop iteration per step, over     *)
(*               bounded buffers and arguments.                            *)
(*   SpecRecall  analyzeAudioBuffer called several times in a row.         *)
(*   SpecSheet   the editor's sprite sheet state (sheet, frames, analysis, *)
(*               frame selection) and FaceAnimator's frame resolution.     *)
(*   SpecGemini  generateSprite and analyzeSpriteSheet on the responses of *)
(*               the remote call.                                          *)
(*   SpecPreview the preview loop's effect and its 100 ms timer.           *)
(*   SpecParts   FacePartEditor's drag handlers on one rectangle.          *)
(*                                                                         *)
(* Times are counted in units of 50 ms, volumes in thousandths.            *)
(***************************************************************************)
EXTENDS Integers, Sequences, FiniteSets, TLC

VARIABLES
    \* FaceAnimationEditor state
    audioSource,            \* 0 = null, otherwise the id of a decoded AudioBuffer
    regenerateKey,
    editorVideoUrl,         \* the editor's generatedVideoUrl
    volumeThreshold,
    \* FaceAnimator state
    mounted,
    videoGenerationRef,
    lastRegenerateKeyRef,
    generatedVideoUrl,      \* FaceAnimator's own generatedVideoUrl
    currentMouthState,
    mouthStateRef,
    eyeState,
    \* timers and recordings in flight
    startTimers,            \* pending setTimeout(generateVideo, 500), oldest first
    effectTimerPending,     \* the latest effect run's timer is still pending
    recordings,             \* generateVideo calls between start and stop event
    \* browser resources and the canvas
    openAudioContexts,
    liveTracks,
    surface,
    \* history
    attempts,
    failures,
    published,              \* calls of onVideoGenerated
    \* smoothTransition fold
    displayed,
    targets,
    \* analyzeAudioBuffer: arguments, and the locals of the call in progress
    audioBuffer,            \* [sampleRate, channelData]
    fps,
    threshold,
    releaseTime,            \* milliseconds
    analyzer,               \* [smoothing, lastOpenTime, isOpen, frameIndex, frames, returned]
    calls,                  \* history: arguments and result of every call that returned
    \* FaceAnimationEditor sprite sheet state
    spriteSheetBase64,      \* 0 = null, otherwise the id of an image
    frames,                 \* the image the sliced frames came from, 0 = []
    spriteAnalysis,         \* <<>> = null, otherwise <<analysis>>
    selectedFrames,         \* <<>> = null, otherwise <<selection>>
    isAnalyzing,
    status,
    pendingSlices,          \* images whose sliceSpriteSheet call has not settled
    analysisRequest,        \* image sent with the analyzeSpriteSheet call in flight
    selectionOrigin,        \* history: what seeded selectedFrames, which keys the user set
    analysesDone,           \* history: analyses that have succeeded
    selects,                \* history: frames the user has clicked
    errorMsg,               \* <<>> = null, otherwise <<message>>
    failedCalls,            \* history: generateSprite and analyzeSpriteSheet calls that failed
    \* functions and components checked on their own
    classifier,             \* classifyMouth: [volume, props, result]
    gemini,                 \* a remote call: [response, call, outcome]
    preview,                \* the preview loop: [frames, pending, animationFrameRef, ...]
    partEditor,             \* FacePartEditor: [rect, dragging, drags]
    recorder,               \* one generateVideo call: [pc, tick, clock, log, timers, ...]
    mouthSync               \* useAudioMouthSync: [isActive, mouthState, smoothing, ...]

animatorVars == <<mounted, videoGenerationRef, lastRegenerateKeyRef, generatedVideoUrl,
                  currentMouthState, mouthStateRef, eyeState>>
editorVars == <<audioSource, regenerateKey, editorVideoUrl, volumeThreshold>>
pipelineVars == <<startTimers, effectTimerPending, recordings, openAudioContexts,
                  liveTracks, surface, attempts, failures, published>>
smoothVars == <<displayed, targets>>
analyzerVars == <<audioBuffer, fps, threshold, releaseTime, analyzer, calls>>
sheetVars == <<spriteSheetBase64, frames, spriteAnalysis, selectedFrames, isAnalyzing, status,
               pendingSlices, analysisRequest, selectionOrigin, analysesDone, selects,
               errorMsg, failedCalls>>
unitVars == <<classifier, gemini, preview, partEditor, recorder, mouthSync>>
asideVars == <<smoothVars, analyzerVars, sheetVars, unitVars>>
vars == <<editorVars, animatorVars, pipelineVars, smoothVars, analyzerVars, sheetVars, unitVars>>

----------------------------------------------------------------------------
\* Bounds of the model

MaxAudio == 2       \* audio files the user uploads
MaxKey == 1         \* clicks on the regenerate button
MaxErrors == 1      \* recording attempts the browser lets fail
MaxLate == 1        \* units a timer callback may run late
MaxTargets == 4     \* length of the target sequences fed to smoothTransition

\* Program constants, in units of 50 ms and in thousandths

StartDelay == 1         \* setTimeout(updateFrame, 50)
FrameInterval == 2      \* 1000 / fps with fps = 10
DrainDelay == 4         \* setTimeout(..., 200)
MouthMidThreshold == 20
MouthOpenThreshold == 50
VolumeThreshold == 10   \* the slider's initial value, 0.01
SliderStep == 1         \* the slider's step, 0.001

NaN == -1           \* the value of 0 / 0; no volume is negative
Null == <<>>
NoAudio == 0
MouthStates == {"open", "mid", "closed"}
EyeStates == {"open", "closed"}
Pairs == (1..MaxAudio) \X (0..MaxKey)
NoUrl == [audio |-> NoAudio, key |-> 0, frames |-> 0]

----------------------------------------------------------------------------
\* Pure functions

Min(a, b) == IF a <= b THEN a ELSE b
Max(a, b) == IF a >= b THEN a ELSE b

\* The smoothed volumes analyzeAudioBuffer returns for the uploaded clips.
ClipVolumes(a) ==
    IF a % 3 = 1 THEN <<60, 0, 60>>
    ELSE IF a % 3 = 2 THEN <<0, 30>>
    ELSE <<30>>

FrameTime(i) == i * FrameInterval   \* time of volumeFrames[i], i counted from 0

\* a ?? b: b when the prop is undefined
OrElse(prop, default) == IF prop = Null THEN default ELSE prop[1]

\* a >= b of two numbers, false when one of them is NaN
AtLeast(a, b) == a # NaN /\ b # NaN /\ a >= b

\* The thresholds classifyMouth falls back to; volumeThreshold * 1.5 is
\* exact for the even thresholds the checks draw.
midThresholdOf(props) ==
    OrElse(props.mouthMidThreshold,
           Max((props.volumeThreshold * 3) \div 2, props.volumeThreshold + 5))
openThresholdOf(props) ==
    OrElse(props.mouthOpenThreshold,
           Max(props.volumeThreshold * 3, props.volumeThreshold + 10))

classifyMouthMidFirst(volume, props) ==
    IF AtLeast(volume, midThresholdOf(props)) THEN "mid"
    ELSE IF AtLeast(volume, openThresholdOf(props)) THEN "open"
    ELSE "closed"

\* classifyMouth as a function of the props its closure reads
classifyMouthWith(volume, props) ==
    IF AtLeast(volume, openThresholdOf(props)) THEN "open"
    ELSE IF AtLeast(volume, midThresholdOf(props)) THEN "mid"
    ELSE "closed"

\* classifyMouth under the props the editor passes
classifyMouth(volume) ==
    classifyMouthWith(volume, [volumeThreshold |-> volumeThreshold,
                               mouthMidThreshold |-> <<MouthMidThreshold>>,
                               mouthOpenThreshold |-> <<MouthOpenThreshold>>])

smoothTransitionDirect(prev, target) == target

smoothTransition(prev, target) ==
    IF prev = "closed" /\ target = "open" THEN "mid"
    ELSE IF prev = "open" /\ target = "closed" THEN "mid"
    ELSE IF prev = "mid" /\ target = "open" THEN "open"
    ELSE IF prev = "mid" /\ target = "closed" THEN "closed"
    ELSE target


RECURSIVE SumOver(_, _)
SumOver(f, S) ==
    IF S = {} THEN 0
    ELSE LET p == CHOOSE x \in S : TRUE IN f[p] + SumOver(f, S \ {p})

TotalAttempts == SumOver(attempts, Pairs)
TotalFailures == SumOver(failures, Pairs)

RemoveAt(s, i) == [j \in 1..(Len(s) - 1) |-> IF j < i THEN s[j] ELSE s[j + 1]]

----------------------------------------------------------------------------
\* The video generation effect

clearTimeoutLeak(timers, pending) == timers

\* The effect's cleanup: clearTimeout(timer) of the timer the latest run set.
clearTimeout(timers, pending) ==
    IF pending /\ Len(timers) > 0 THEN SubSeq(timers, 1, Len(timers) - 1) ELSE timers

\* The guards of the effect body.
EffectGuard(a, flag, url, key) ==
    /\ a # NoAudio
    /\ ~flag
    /\ ~(url # NoUrl /\ lastRegenerateKeyRef = key)

\* A committed render that changed one of the effect's dependencies: the
\* previous run's cleanup, then the effect body.
VideoEffect(timers, pending, a, flag, url, key, eye, mouth) ==
    LET cleared == clearTimeout(timers, pending) IN
    IF EffectGuard(a, flag, url, key)
    THEN /\ lastRegenerateKeyRef' = key
         /\ startTimers' = Append(cleared, [audio |-> a, key |-> key, eye |-> eye, mouth |-> mouth])
         /\ effectTimerPending' = TRUE
    ELSE /\ UNCHANGED lastRegenerateKeyRef
         /\ startTimers' = cleared
         /\ effectTimerPending' = FALSE

\* renderFrame as called by the preview loop, which always holds the
\* renderFrame of the latest render.
PreviewDraw(eye, mouth) == [by |-> "preview", eye |-> eye, mouth |-> mouth]

\* renderFrame as called from generateVideo: the one captured by the effect run.
RecordingDraw(c) == [by |-> "recording", eye |-> c.eye, mouth |-> c.mouth]

----------------------------------------------------------------------------
MainInit ==
    /\ audioSource = NoAudio
    /\ regenerateKey = 0
    /\ editorVideoUrl = NoUrl
    /\ volumeThreshold = VolumeThreshold
    /\ mounted = TRUE
    /\ videoGenerationRef = FALSE
    /\ lastRegenerateKeyRef = 0
    /\ generatedVideoUrl = NoUrl
    /\ currentMouthState = "closed"
    /\ mouthStateRef = "closed"
    /\ eyeState = "open"
    /\ startTimers = <<>>
    /\ effectTimerPending = FALSE
    /\ recordings = <<>>
    /\ openAudioContexts = 0
    /\ liveTracks = 0
    /\ surface = PreviewDraw("open", "closed")
    /\ attempts = [p \in Pairs |-> 0]
    /\ failures = [p \in Pairs |-> 0]
    /\ published = 0

\* The locals of analyzeAudioBuffer when the loop is entered.
AnalyzerLocals ==
    [smoothing |-> 0, lastOpenTime |-> -1, isOpen |-> FALSE, frameIndex |-> 0,
     frames |-> <<>>, returned |-> FALSE]

\* The parts of the state a specification does not exercise stay as below.
SmoothIdle ==
    /\ displayed = <<>>
    /\ targets = <<>>

AnalyzerIdle ==
    /\ audioBuffer = [sampleRate |-> 1, channelData |-> <<>>]
    /\ fps = 1
    /\ threshold = 0
    /\ releaseTime = 0
    /\ analyzer = AnalyzerLocals
    /\ calls = <<>>

SheetIdle ==
    /\ spriteSheetBase64 = 0
    /\ frames = 0
    /\ spriteAnalysis = <<>>
    /\ selectedFrames = <<>>
    /\ isAnalyzing = FALSE
    /\ status = "IDLE"
    /\ pendingSlices = {}
    /\ analysisRequest = 0
    /\ selectionOrigin = [seed |-> <<>>, userKeys |-> {}]
    /\ analysesDone = 0
    /\ selects = 0
    /\ errorMsg = Null
    /\ failedCalls = [generation |-> 0, analysis |-> 0]

UnitIdle ==
    /\ classifier = <<>>
    /\ gemini = <<>>
    /\ preview = <<>>
    /\ partEditor = <<>>
    /\ recorder = <<>>
    /\ mouthSync = <<>>

Init ==
    /\ MainInit
    /\ SmoothIdle
    /\ AnalyzerIdle
    /\ SheetIdle
    /\ UnitIdle

----------------------------------------------------------------------------
\* Editor handlers and the blink scheduler

\* handleAudioFileUpload: a newly decoded AudioBuffer replaces the audio source.
AudioUploaded ==
    /\ mounted
    /\ audioSource < MaxAudio
    /\ audioSource' = audioSource + 1
    /\ editorVideoUrl' = NoUrl
    /\ VideoEffect(startTimers, effectTimerPending, audioSource + 1, videoGenerationRef,
                   generatedVideoUrl, regenerateKey, eyeState, currentMouthState)
    /\ UNCHANGED <<regenerateKey, volumeThreshold, mounted, videoGenerationRef, generatedVideoUrl,
                   currentMouthState, mouthStateRef, eyeState, recordings,
                   openAudioContexts, liveTracks, surface, attempts, failures, published, asideVars>>

\* The regenerate button's onClick (enabled while audio is loaded).
Regenerate ==
    /\ mounted
    /\ audioSource # NoAudio
    /\ regenerateKey < MaxKey
    /\ regenerateKey' = regenerateKey + 1
    /\ editorVideoUrl' = NoUrl
    /\ VideoEffect(startTimers, effectTimerPending, audioSource, videoGenerationRef,
                   generatedVideoUrl, regenerateKey + 1, eyeState, currentMouthState)
    /\ UNCHANGED <<audioSource, volumeThreshold, mounted, videoGenerationRef, generatedVideoUrl,
                   currentMouthState, mouthStateRef, eyeState, recordings,
                   openAudioContexts, liveTracks, surface, attempts, failures, published, asideVars>>

\* The volume threshold slider's onChange: a dependency of the video effect
\* changes (renderFrame does not), so the effect runs again.
ThresholdChanged ==
    /\ mounted
    /\ volumeThreshold' = IF volumeThreshold = VolumeThreshold
                          THEN VolumeThreshold + SliderStep ELSE VolumeThreshold
    /\ VideoEffect(startTimers, effectTimerPending, audioSource, videoGenerationRef,
                   generatedVideoUrl, regenerateKey, eyeState, currentMouthState)
    /\ UNCHANGED <<audioSource, regenerateKey, editorVideoUrl, mounted, videoGenerationRef,
                   generatedVideoUrl, currentMouthState, mouthStateRef, eyeState,
                   recordings, openAudioContexts, liveTracks, surface, attempts,
                   failures, published, asideVars>>

\* A blink scheduler that keeps running after the session has ended.
BlinkUncancelled ==
    /\ eyeState' = IF eyeState = "open" THEN "closed" ELSE "open"
    /\ surface' = IF mounted THEN PreviewDraw(eyeState', currentMouthState) ELSE surface
    /\ IF mounted
       THEN VideoEffect(startTimers, effectTimerPending, audioSource, videoGenerationRef,
                        generatedVideoUrl, regenerateKey, eyeState', currentMouthState)
       ELSE UNCHANGED <<startTimers, effectTimerPending, lastRegenerateKeyRef>>
    /\ UNCHANGED <<editorVars, mounted, videoGenerationRef, generatedVideoUrl,
                   currentMouthState, mouthStateRef, recordings,
                   openAudioContexts, liveTracks, attempts, failures, published, asideVars>>

\* useBlinkScheduler flips eyeState: renderFrame changes, so the preview
\* effect restarts (drawing at once) and the video effect runs again.
Blink ==
    /\ mounted
    /\ eyeState' = IF eyeState = "open" THEN "closed" ELSE "open"
    /\ surface' = PreviewDraw(eyeState', currentMouthState)
    /\ VideoEffect(startTimers, effectTimerPending, audioSource, videoGenerationRef,
                   generatedVideoUrl, regenerateKey, eyeState', currentMouthState)
    /\ UNCHANGED <<editorVars, mounted, videoGenerationRef, generatedVideoUrl,
                   currentMouthState, mouthStateRef, recordings,
                   openAudioContexts, liveTracks, attempts, failures, published, asideVars>>

PreviewTickResetsMouth ==
    /\ mounted
    /\ surface' = PreviewDraw(eyeState, "closed")
    /\ currentMouthState' = "closed"
    /\ UNCHANGED <<editorVars, mounted, videoGenerationRef, lastRegenerateKeyRef,
                   generatedVideoUrl, mouthStateRef, eyeState, startTimers, effectTimerPending,
                   recordings, openAudioContexts, liveTracks, attempts, failures, published,
                   asideVars>>

\* The preview loop's 100 ms timer: animate() draws and re-arms itself.
PreviewTick ==
    /\ mounted
    /\ surface' = PreviewDraw(eyeState, currentMouthState)
    /\ UNCHANGED <<editorVars, animatorVars, startTimers, effectTimerPending, recordings,
                   openAudioContexts, liveTracks, attempts, failures, published, asideVars>>

\* The session is torn down: React runs the cleanups of the latest effect runs.
Unmount ==
    /\ mounted
    /\ mounted' = FALSE
    /\ startTimers' = clearTimeout(startTimers, effectTimerPending)
    /\ effectTimerPending' = FALSE
    /\ UNCHANGED <<editorVars, videoGenerationRef, lastRegenerateKeyRef, generatedVideoUrl,
                   currentMouthState, mouthStateRef, eyeState, recordings,
                   openAudioContexts, liveTracks, surface, attempts, failures, published, asideVars>>

----------------------------------------------------------------------------
\* generateVideo and the mux loop

FailPoints == {"captureStream", "MediaRecorder"}

\* What generateVideo has acquired when the call named by fail throws.
TracksAcquired(fail) == IF fail = "captureStream" THEN 0 ELSE 1
ContextsAcquired(fail) == IF fail = "captureStream" THEN 0 ELSE 1

\* The catch block of generateVideo.
CatchHandler(fail) ==
    /\ videoGenerationRef' = FALSE
    /\ liveTracks' = liveTracks + TracksAcquired(fail)
    /\ openAudioContexts' = openAudioContexts + ContextsAcquired(fail)

NewRecording(c) ==
    [audio |-> c.audio, key |-> c.key, eye |-> c.eye, mouth |-> c.mouth,
     frameIndex |-> 0, phase |-> "recording", elapsed |-> 0, due |-> StartDelay]

\* The 500 ms start timer fires: generateVideo runs up to its await, or up
\* to the call that throws and then through its catch block.
GenerateVideo ==
    /\ startTimers # <<>>
    /\ LET c == Head(startTimers)
           rest == Tail(startTimers)
           pending == effectTimerPending /\ Len(startTimers) > 1
           volumeFrames == ClipVolumes(c.audio)
           initial == IF Len(volumeFrames) > 0 THEN classifyMouth(volumeFrames[1])
                      ELSE mouthStateRef
           shown == IF mounted THEN initial ELSE currentMouthState
       IN
       /\ attempts' = [attempts EXCEPT ![<<c.audio, c.key>>] = @ + 1]
       /\ \/ /\ TotalFailures < MaxErrors
             /\ \E fail \in FailPoints : CatchHandler(fail)
             /\ failures' = [failures EXCEPT ![<<c.audio, c.key>>] = @ + 1]
             /\ startTimers' = rest
             /\ effectTimerPending' = pending
             /\ UNCHANGED <<recordings, mouthStateRef, currentMouthState, surface,
                            lastRegenerateKeyRef>>
          \/ /\ videoGenerationRef' = TRUE
             /\ liveTracks' = liveTracks + 1
             /\ openAudioContexts' = openAudioContexts + 1
             /\ recordings' = Append(recordings, NewRecording(c))
             /\ mouthStateRef' = initial
             /\ currentMouthState' = shown
             /\ UNCHANGED failures
             /\ IF shown # currentMouthState
                THEN \* the render this setCurrentMouthState causes changes renderFrame
                     /\ surface' = PreviewDraw(eyeState, shown)
                     /\ VideoEffect(rest, pending, audioSource, TRUE, generatedVideoUrl,
                                    regenerateKey, eyeState, shown)
                ELSE /\ surface' = IF mounted /\ Len(volumeFrames) > 0
                                   THEN RecordingDraw(c) ELSE surface
                     /\ startTimers' = rest
                     /\ effectTimerPending' = pending
                     /\ UNCHANGED lastRegenerateKeyRef
    /\ UNCHANGED <<editorVars, mounted, generatedVideoUrl, eyeState, published, asideVars>>

\* Time passes for recording i; a due timer callback runs at most MaxLate late.
Tick(i) ==
    /\ recordings[i].phase \in {"recording", "draining"}
    /\ recordings[i].elapsed < recordings[i].due + MaxLate
    /\ recordings' = [recordings EXCEPT ![i].elapsed = @ + 1]
    /\ UNCHANGED <<editorVars, animatorVars, startTimers, effectTimerPending,
                   openAudioContexts, liveTracks, surface, attempts, failures, published, asideVars>>

ExhaustedEarly(frameIndex, n) == frameIndex >= n - 1

StoppedPhaseNever == "drained"

\* The recorder's state after mediaRecorder.stop(): its stop event is queued.
StoppedPhase == "stopping"

\* updateFrame's test that the precomputed sequence is used up.
Exhausted(frameIndex, n) == frameIndex >= n

\* The setTimeout(updateFrame, ...) callback of recording i.
UpdateFrame(i) ==
    LET r == recordings[i]
        volumeFrames == ClipVolumes(r.audio)
        n == Len(volumeFrames)
    IN
    /\ r.phase = "recording"
    /\ r.elapsed >= r.due
    /\ IF Exhausted(r.frameIndex, n)
       THEN \* the sequence is exhausted: arm the drain timer and return
            /\ recordings' = [recordings EXCEPT ![i].phase = "draining",
                                                 ![i].due = r.elapsed + DrainDelay]
            /\ UNCHANGED <<mouthStateRef, currentMouthState, surface, startTimers,
                           effectTimerPending, lastRegenerateKeyRef>>
       ELSE LET consume == r.elapsed >= FrameTime(r.frameIndex)
                target == classifyMouth(volumeFrames[r.frameIndex + 1])
                nextMouth == smoothTransition(mouthStateRef, target)
                newIndex == IF consume THEN r.frameIndex + 1 ELSE r.frameIndex
                waitTime == IF newIndex < n
                            THEN Min(Max(0, FrameTime(newIndex) - r.elapsed), FrameInterval)
                            ELSE FrameInterval
                shown == IF consume /\ mounted THEN nextMouth ELSE currentMouthState
            IN
            /\ recordings' = [recordings EXCEPT ![i].frameIndex = newIndex,
                                                 ![i].due = r.elapsed + waitTime]
            /\ mouthStateRef' = IF consume THEN nextMouth ELSE mouthStateRef
            /\ currentMouthState' = shown
            /\ IF shown # currentMouthState
               THEN /\ surface' = PreviewDraw(eyeState, shown)
                    /\ VideoEffect(startTimers, effectTimerPending, audioSource,
                                   videoGenerationRef, generatedVideoUrl, regenerateKey,
                                   eyeState, shown)
               ELSE /\ surface' = IF consume /\ mounted THEN RecordingDraw(r) ELSE surface
                    /\ UNCHANGED <<startTimers, effectTimerPending, lastRegenerateKeyRef>>
    /\ UNCHANGED <<editorVars, mounted, videoGenerationRef, generatedVideoUrl, eyeState,
                   openAudioContexts, liveTracks, attempts, failures, published, asideVars>>

\* The 200 ms drain timer of recording i: stop the recorder, the source and
\* the tracks, close the audio context.
Drain(i) ==
    /\ recordings[i].phase = "draining"
    /\ recordings[i].elapsed >= recordings[i].due
    /\ recordings' = [recordings EXCEPT ![i].phase = StoppedPhase]
    /\ liveTracks' = liveTracks - 1
    /\ openAudioContexts' = openAudioContexts - 1
    /\ UNCHANGED <<editorVars, animatorVars, startTimers, effectTimerPending, surface,
                   attempts, failures, published, asideVars>>

\* mediaRecorder.onstop of recording i.
OnStop(i) ==
    LET r == recordings[i]
        url == [audio |-> r.audio, key |-> r.key, frames |-> r.frameIndex]
        localUrl == IF mounted THEN url ELSE generatedVideoUrl
    IN
    /\ r.phase = "stopping"
    /\ generatedVideoUrl' = localUrl
    /\ videoGenerationRef' = FALSE
    /\ editorVideoUrl' = IF mounted THEN url ELSE editorVideoUrl
    /\ recordings' = RemoveAt(recordings, i)
    /\ published' = published + 1
    /\ IF mounted
       THEN VideoEffect(startTimers, effectTimerPending, audioSource, FALSE, url,
                        regenerateKey, eyeState, currentMouthState)
       ELSE UNCHANGED <<startTimers, effectTimerPending, lastRegenerateKeyRef>>
    /\ UNCHANGED <<audioSource, regenerateKey, volumeThreshold, mounted, currentMouthState, mouthStateRef,
                   eyeState, openAudioContexts, liveTracks, surface, attempts, failures,
                   asideVars>>

TimePasses == \E i \in 1..Len(recordings) : Tick(i)
UpdateFrameFires == \E i \in 1..Len(recordings) : UpdateFrame(i)
DrainFires == \E i \in 1..Len(recordings) : Drain(i)
RecorderStops == \E i \in 1..Len(recordings) : OnStop(i)

Next ==
    \/ AudioUploaded
    \/ Regenerate
    \/ ThresholdChanged
    \/ Blink
    \/ PreviewTick
    \/ Unmount
    \/ GenerateVideo
    \/ TimePasses
    \/ UpdateFrameFires
    \/ DrainFires
    \/ RecorderStops

Spec == Init /\ [][Next]_vars

\* The browser fires every pending timer and queued event; the user and the
\* blink scheduler are under no obligation.
FairSpec ==
    /\ Spec
    /\ WF_vars(GenerateVideo)
    /\ WF_vars(TimePasses)
    /\ WF_vars(UpdateFrameFires)
    /\ WF_vars(DrainFires)
    /\ WF_vars(RecorderStops)

TypeOK ==
    /\ audioSource \in 0..MaxAudio
    /\ regenerateKey \in 0..MaxKey
    /\ mounted \in BOOLEAN
    /\ videoGenerationRef \in BOOLEAN
    /\ currentMouthState \in MouthStates
    /\ mouthStateRef \in MouthStates
    /\ eyeState \in EyeStates
    /\ openAudioContexts >= 0
    /\ liveTracks >= 0

----------------------------------------------------------------------------
\* smoothTransition folded over a sequence of targets:
\* displayed[k + 1] = smoothTransition(displayed[k], targets[k])

InitSmooth ==
    /\ MainInit
    /\ \E m \in MouthStates : displayed = <<m>>
    /\ targets = <<>>
    /\ AnalyzerIdle
    /\ SheetIdle
    /\ UnitIdle

FeedTarget ==
    /\ Len(targets) < MaxTargets
    /\ \E t \in MouthStates :
          /\ targets' = Append(targets, t)
          /\ displayed' = Append(displayed, smoothTransition(displayed[Len(displayed)], t))
    /\ UNCHANGED <<editorVars, animatorVars, pipelineVars, analyzerVars, sheetVars, unitVars>>

NextSmooth == FeedTarget

SpecSmooth == InitSmooth /\ [][NextSmooth]_vars

----------------------------------------------------------------------------
\* analyzeAudioBuffer(audioBuffer, fps, threshold, releaseTime), one loop
\* iteration per step.  Samples and volumes are thousandths of full scale,
\* times are milliseconds, and the arithmetic is exact up to the rounding of
\* the last thousandth.

MaxSamples == 20    \* samples in the channel
MaxBurst == 2       \* start and length of the non-silent stretch, in samples
MaxCalls == 3       \* calls of analyzeAudioBuffer in a row

DefaultFps == 10
DefaultThreshold == 10
DefaultReleaseTime == 100

SampleRates == {5, 20}
FpsValues == {5, DefaultFps}
Thresholds == {DefaultThreshold}
ReleaseTimes == {DefaultReleaseTime, 300}
Amplitudes == {40, 1000}

\* Silence of the given length with one stretch of constant amplitude.
Burst(length, start, width, amplitude) ==
    [i \in 1..length |-> IF start < i /\ i <= start + width THEN amplitude ELSE 0]

AudioBuffers ==
    {[sampleRate |-> r, channelData |-> Burst(l, b, w, a)] :
        r \in SampleRates, l \in 0..MaxSamples, b \in 0..MaxBurst, w \in 0..MaxBurst,
        a \in Amplitudes}

CeilDiv(a, b) == (a + b - 1) \div b

\* Math.sqrt on a mean square in millionths, in thousandths.
Sqrt(x) == CHOOSE r \in 0..1000 : r * r <= x /\ x < (r + 1) * (r + 1)

frameInterval == 1000 \div fps
samplesPerFrame == audioBuffer.sampleRate \div fps
releaseFrames == CeilDiv(releaseTime * fps, 1000)

\* Math.ceil(duration * fps) with duration = length / sampleRate
FrameLimitFloor == (Len(audioBuffer.channelData) * fps) \div audioBuffer.sampleRate
FrameLimit == CeilDiv(Len(audioBuffer.channelData) * fps, audioBuffer.sampleRate)

\* The inner loop over channelData[startSample .. endSample - 1].
RECURSIVE SumSquares(_, _, _)
SumSquares(channelData, startSample, endSample) ==
    IF startSample >= endSample THEN 0
    ELSE channelData[startSample + 1] * channelData[startSample + 1]
         + SumSquares(channelData, startSample + 1, endSample)

WindowStart(i) == i * samplesPerFrame
WindowEnd(i) == Min(WindowStart(i) + samplesPerFrame, Len(audioBuffer.channelData))
WindowCount(i) == Max(WindowEnd(i) - WindowStart(i), 0)

Rms(sum, count) == IF count = 0 THEN NaN ELSE Sqrt(sum \div count)

SmoothBiased(previous, rms) ==
    IF previous = NaN \/ rms = NaN THEN NaN ELSE (previous * 7) \div 10 + 300
SmoothNoHistory(previous, rms) ==
    IF previous = NaN \/ rms = NaN THEN NaN ELSE (rms * 3) \div 10
Smooth(previous, rms) ==
    IF previous = NaN \/ rms = NaN THEN NaN ELSE (previous * 7 + rms * 3) \div 10

\* smoothedVolume > threshold; every comparison with NaN is false.
Above(volume, limit) == volume # NaN /\ volume > limit

HeldOpenLong(open, i, last, release) == open /\ (i - last) <= release
HeldOpenShort(open, i, last, release) == open /\ (i - last) + 1 < release
HeldOpen(open, i, last, release) == open /\ (i - last) < release

\* The arguments of the call in progress
Arguments ==
    [audioBuffer |-> audioBuffer, fps |-> fps, threshold |-> threshold,
     releaseTime |-> releaseTime]

\* A call on a buffer that is loud to its end: it returns with the mouth
\* open and the smoothed volume high.
LoudCall ==
    [audioBuffer |-> [sampleRate |-> 5, channelData |-> Burst(MaxBurst, 0, MaxBurst, 1000)],
     fps |-> 5, threshold |-> DefaultThreshold, releaseTime |-> 300]

\* frames, smoothing, lastOpenTime and isOpen are declared in the function
\* body: a call starts from fresh ones whatever the previous call left.
EntryLocalsKept(previous) ==
    [AnalyzerLocals EXCEPT !.smoothing = previous.smoothing, !.isOpen = previous.isOpen]
EntryLocals(previous) == AnalyzerLocals

InitAnalyze ==
    /\ MainInit
    /\ SmoothIdle
    /\ SheetIdle
    /\ UnitIdle
    /\ audioBuffer \in AudioBuffers
    /\ fps \in FpsValues
    /\ threshold \in Thresholds
    /\ releaseTime \in ReleaseTimes
    /\ analyzer = AnalyzerLocals
    /\ calls = <<>>

LoopIteration ==
    /\ ~analyzer.returned
    /\ analyzer.frameIndex < FrameLimit
    /\ LET i == analyzer.frameIndex
           time == i * frameInterval
           sum == SumSquares(audioBuffer.channelData, WindowStart(i), WindowEnd(i))
           rms == Rms(sum, WindowCount(i))
           smoothedVolume == Smooth(analyzer.smoothing, rms)
           above == Above(smoothedVolume, threshold)
           held == /\ ~above
                   /\ HeldOpen(analyzer.isOpen, i, analyzer.lastOpenTime, releaseFrames)
           mouthState == IF above \/ held THEN "open" ELSE "closed"
       IN analyzer' = [analyzer EXCEPT
                          !.smoothing = smoothedVolume,
                          !.isOpen = above \/ held,
                          !.lastOpenTime = IF above THEN i ELSE @,
                          !.frameIndex = i + 1,
                          !.frames = Append(@, [time |-> time, volume |-> smoothedVolume,
                                                mouthState |-> mouthState])]
    /\ UNCHANGED <<audioBuffer, fps, threshold, releaseTime, calls>>
    /\ UNCHANGED <<editorVars, animatorVars, pipelineVars, smoothVars, sheetVars, unitVars>>

Return ==
    /\ ~analyzer.returned
    /\ analyzer.frameIndex >= FrameLimit
    /\ analyzer' = [analyzer EXCEPT !.returned = TRUE]
    /\ calls' = Append(calls, [args |-> Arguments, frames |-> analyzer.frames])
    /\ UNCHANGED <<audioBuffer, fps, threshold, releaseTime>>
    /\ UNCHANGED <<editorVars, animatorVars, pipelineVars, smoothVars, sheetVars, unitVars>>

\* The next call of analyzeAudioBuffer: with the arguments of an earlier
\* call, or with LoudCall.
CallAgain ==
    /\ analyzer.returned
    /\ Len(calls) < MaxCalls
    /\ \E args \in {calls[k].args : k \in 1..Len(calls)} \cup {LoudCall} :
          /\ audioBuffer' = args.audioBuffer
          /\ fps' = args.fps
          /\ threshold' = args.threshold
          /\ releaseTime' = args.releaseTime
    /\ analyzer' = EntryLocals(analyzer)
    /\ UNCHANGED calls
    /\ UNCHANGED <<editorVars, animatorVars, pipelineVars, smoothVars, sheetVars, unitVars>>

NextAnalyze == LoopIteration \/ Return

SpecAnalyze == InitAnalyze /\ [][NextAnalyze]_vars

\* Calls in a row (SpecRecall), the first one on a buffer of the lower rate.
InitRecall ==
    /\ InitAnalyze
    /\ audioBuffer.sampleRate = 5

NextRecall == LoopIteration \/ Return \/ CallAgain

SpecRecall == InitRecall /\ [][NextRecall]_vars

----------------------------------------------------------------------------
\* The editor's sprite sheet state (sheet, sliced frames, analysis, frame
\* selection) and FaceAnimator's frame resolution.  A nullable value is the
\* empty tuple or a tuple of one value.

MaxImages == 2      \* distinct sprite sheet images
MaxAnalyses == 1    \* analyses that succeed
MaxCallFailures == 2 \* remote calls the service lets fail
MaxSelects == 1     \* frames the user clicks in the selector

FrameCount == 16    \* a sheet is sliced into 4 x 4 frames

Images == 1..MaxImages
Keys == {"eyesOpenMouthOpen", "eyesOpenMouthMid", "eyesOpenMouthClosed",
         "eyesClosedMouthOpen", "eyesClosedMouthMid", "eyesClosedMouthClosed"}

\* Indices the remote analysis may recommend: JSON.parse checks nothing, so
\* an index may lie outside the sheet.
EyesOpenIndices == {0, FrameCount}
EyesClosedIndices == {0, 1}
MouthOpenIndices == {0, 2}
MouthClosedIndices == {0, 3}
\* Frames the user clicks, among the FrameCount the selector shows.
ClickedFrames == {4, FrameCount - 1}

Analyses ==
    [recommendedEyesOpenFrame : EyesOpenIndices,
     recommendedEyesClosedFrame : EyesClosedIndices,
     recommendedMouthOpenFrame : MouthOpenIndices,
     recommendedMouthClosedFrame : MouthClosedIndices]

\* analysis?.field ?? 0
Recommended(analysis, field) == IF analysis = Null THEN 0 ELSE analysis[1][field]

SelectionByMouth(eyesOpen, eyesClosed, mouthOpen, mouthClosed, mouthMid) ==
    [eyesOpenMouthOpen |-> eyesOpen,
     eyesOpenMouthMid |-> mouthMid,
     eyesOpenMouthClosed |-> mouthClosed,
     eyesClosedMouthOpen |-> eyesClosed,
     eyesClosedMouthMid |-> mouthMid,
     eyesClosedMouthClosed |-> IF eyesClosed # 0 THEN eyesClosed ELSE mouthClosed]

\* The object literal both createInitialSelection and resolvedSelection return.
Selection(eyesOpen, eyesClosed, mouthOpen, mouthClosed, mouthMid) ==
    [eyesOpenMouthOpen |-> eyesOpen,
     eyesOpenMouthMid |-> mouthMid,
     eyesOpenMouthClosed |-> eyesOpen,
     eyesClosedMouthOpen |-> eyesClosed,
     eyesClosedMouthMid |-> mouthMid,
     eyesClosedMouthClosed |-> IF eyesClosed # 0 THEN eyesClosed ELSE mouthClosed]

createInitialSelectionMidClosed(analysis) ==
    Selection(Recommended(analysis, "recommendedEyesOpenFrame"),
              Recommended(analysis, "recommendedEyesClosedFrame"),
              Recommended(analysis, "recommendedMouthOpenFrame"),
              Recommended(analysis, "recommendedMouthClosedFrame"),
              Recommended(analysis, "recommendedMouthClosedFrame"))

createInitialSelection(analysis) ==
    Selection(Recommended(analysis, "recommendedEyesOpenFrame"),
              Recommended(analysis, "recommendedEyesClosedFrame"),
              Recommended(analysis, "recommendedMouthOpenFrame"),
              Recommended(analysis, "recommendedMouthClosedFrame"),
              Recommended(analysis, "recommendedMouthOpenFrame"))

resolvedSelection ==
    IF selectedFrames # Null THEN selectedFrames[1]
    ELSE Selection(Recommended(spriteAnalysis, "recommendedEyesOpenFrame"),
                   Recommended(spriteAnalysis, "recommendedEyesClosedFrame"),
                   Recommended(spriteAnalysis, "recommendedMouthOpenFrame"),
                   Recommended(spriteAnalysis, "recommendedMouthClosedFrame"),
                   Recommended(spriteAnalysis, "recommendedMouthOpenFrame"))

KeyOf(eye, mouth) ==
    IF eye = "open"
    THEN IF mouth = "open" THEN "eyesOpenMouthOpen"
         ELSE IF mouth = "mid" THEN "eyesOpenMouthMid" ELSE "eyesOpenMouthClosed"
    ELSE IF mouth = "open" THEN "eyesClosedMouthOpen"
         ELSE IF mouth = "mid" THEN "eyesClosedMouthMid" ELSE "eyesClosedMouthClosed"

resolveFrameIndex(eye, mouth) == resolvedSelection[KeyOf(eye, mouth)]

\* frames.length
FramesLength == IF frames = 0 THEN 0 ELSE FrameCount

\* renderFrame: the index of the frame whose image is drawn,
\* frames[frameIdx] || frames[0]
DrawnFrameUnchecked(eye, mouth) == resolveFrameIndex(eye, mouth)
DrawnFrame(eye, mouth) ==
    LET frameIdx == resolveFrameIndex(eye, mouth)
    IN IF frameIdx \in 0..(FramesLength - 1) THEN frameIdx ELSE 0

\* err.message || fallback: the message the catch block stores
ErrorMessageNone(fallback) == Null
ErrorMessage(fallback) == <<fallback>>

InitSheet ==
    /\ MainInit
    /\ SmoothIdle
    /\ AnalyzerIdle
    /\ SheetIdle
    /\ UnitIdle

\* setSpriteSheetBase64(image) and the sprite sheet effect it triggers.
SetSpriteSheet(image) ==
    /\ spriteSheetBase64' = image
    /\ pendingSlices' = IF image = spriteSheetBase64 THEN pendingSlices
                        ELSE pendingSlices \cup {image}

\* handleSpriteSheetUpload: the file reader delivers another image.
SpriteSheetUpload ==
    /\ \E image \in Images :
          /\ image # spriteSheetBase64
          /\ SetSpriteSheet(image)
    /\ UNCHANGED <<frames, spriteAnalysis, selectedFrames, isAnalyzing, status,
                   analysisRequest, selectionOrigin, analysesDone, selects>>
    /\ UNCHANGED <<errorMsg, failedCalls>>
    /\ UNCHANGED <<editorVars, animatorVars, pipelineVars, smoothVars, analyzerVars, unitVars>>

\* handleGenerateExpressionSprite up to its await.
GenerateClicked ==
    /\ status # "GENERATING_SPRITE"
    /\ \E complete \in BOOLEAN :
          IF complete
          THEN /\ status' = "GENERATING_SPRITE"
               /\ errorMsg' = Null
          ELSE /\ errorMsg' = <<"missing input">>
               /\ UNCHANGED status
    /\ UNCHANGED failedCalls
    /\ UNCHANGED <<spriteSheetBase64, frames, spriteAnalysis, selectedFrames, isAnalyzing,
                   pendingSlices, analysisRequest, selectionOrigin, analysesDone, selects>>
    /\ UNCHANGED <<editorVars, animatorVars, pipelineVars, smoothVars, analyzerVars, unitVars>>

\* generateSprite resolved: the result becomes the sprite sheet.
GenerationDone ==
    /\ status = "GENERATING_SPRITE"
    /\ \E image \in Images : SetSpriteSheet(image)
    /\ status' = "COMPLETED"
    /\ UNCHANGED <<frames, spriteAnalysis, selectedFrames, isAnalyzing,
                   analysisRequest, selectionOrigin, analysesDone, selects>>
    /\ UNCHANGED <<errorMsg, failedCalls>>
    /\ UNCHANGED <<editorVars, animatorVars, pipelineVars, smoothVars, analyzerVars, unitVars>>

\* generateSprite rejected.
GenerationFails ==
    /\ status = "GENERATING_SPRITE"
    /\ failedCalls.generation + failedCalls.analysis < MaxCallFailures
    /\ status' = "ERROR"
    /\ errorMsg' = ErrorMessage("Failed to generate sprite sheet.")
    /\ failedCalls' = [failedCalls EXCEPT !.generation = @ + 1]
    /\ UNCHANGED <<spriteSheetBase64, frames, spriteAnalysis, selectedFrames, isAnalyzing,
                   pendingSlices, analysisRequest, selectionOrigin, analysesDone, selects>>
    /\ UNCHANGED <<editorVars, animatorVars, pipelineVars, smoothVars, analyzerVars, unitVars>>

\* The sprite sheet effect after sliceSpriteSheet resolved.
SliceDone ==
    /\ \E image \in pendingSlices :
          /\ pendingSlices' = pendingSlices \ {image}
          /\ frames' = image
    /\ selectedFrames' = <<createInitialSelection(Null)>>
    /\ selectionOrigin' = [seed |-> Null, userKeys |-> {}]
    /\ UNCHANGED <<spriteSheetBase64, spriteAnalysis, isAnalyzing, status,
                   analysisRequest, analysesDone, selects>>
    /\ UNCHANGED <<errorMsg, failedCalls>>
    /\ UNCHANGED <<editorVars, animatorVars, pipelineVars, smoothVars, analyzerVars, unitVars>>

\* The sprite sheet effect after sliceSpriteSheet rejected: the catch only logs.
SliceFails ==
    /\ \E image \in pendingSlices : pendingSlices' = pendingSlices \ {image}
    /\ UNCHANGED <<spriteSheetBase64, frames, spriteAnalysis, selectedFrames, isAnalyzing,
                   status, analysisRequest, selectionOrigin, analysesDone, selects>>
    /\ UNCHANGED <<errorMsg, failedCalls>>
    /\ UNCHANGED <<editorVars, animatorVars, pipelineVars, smoothVars, analyzerVars, unitVars>>

\* handleAnalyzeSpriteSheet up to its await; the button is disabled while
\* isAnalyzing.
AnalyzeClicked ==
    /\ ~isAnalyzing
    /\ IF spriteSheetBase64 = 0
       THEN /\ errorMsg' = <<"missing input">>
            /\ UNCHANGED <<isAnalyzing, analysisRequest>>
       ELSE /\ analysesDone < MaxAnalyses
            /\ isAnalyzing' = TRUE
            /\ errorMsg' = Null
            /\ analysisRequest' = spriteSheetBase64
    /\ UNCHANGED <<spriteSheetBase64, frames, spriteAnalysis, selectedFrames, status,
                   pendingSlices, selectionOrigin, analysesDone, selects, failedCalls>>
    /\ UNCHANGED <<editorVars, animatorVars, pipelineVars, smoothVars, analyzerVars, unitVars>>

\* handleAnalyzeSpriteSheet after analyzeSpriteSheet resolved.
AnalysisDone ==
    /\ isAnalyzing
    /\ \E a \in Analyses :
          LET analysis == <<[image |-> analysisRequest] @@ a>>
          IN /\ spriteAnalysis' = analysis
             /\ selectedFrames' = <<createInitialSelection(analysis)>>
             /\ selectionOrigin' = [seed |-> analysis, userKeys |-> {}]
    /\ isAnalyzing' = FALSE
    /\ analysisRequest' = 0
    /\ analysesDone' = analysesDone + 1
    /\ UNCHANGED <<spriteSheetBase64, frames, status, pendingSlices, selects>>
    /\ UNCHANGED <<errorMsg, failedCalls>>
    /\ UNCHANGED <<editorVars, animatorVars, pipelineVars, smoothVars, analyzerVars, unitVars>>

\* handleAnalyzeSpriteSheet after analyzeSpriteSheet rejected.
AnalysisFails ==
    /\ isAnalyzing
    /\ failedCalls.generation + failedCalls.analysis < MaxCallFailures
    /\ errorMsg' = ErrorMessage("Failed to analyze sprite sheet.")
    /\ isAnalyzing' = FALSE
    /\ analysisRequest' = 0
    /\ failedCalls' = [failedCalls EXCEPT !.analysis = @ + 1]
    /\ UNCHANGED <<spriteSheetBase64, frames, spriteAnalysis, selectedFrames, status,
                   pendingSlices, selectionOrigin, analysesDone, selects>>
    /\ UNCHANGED <<editorVars, animatorVars, pipelineVars, smoothVars, analyzerVars, unitVars>>

\* handleFrameSelect(key, frameIndex), called by a click in FaceFrameSelector,
\* which is rendered while frames is not empty.
FrameSelect ==
    /\ frames # 0
    /\ selects < MaxSelects
    /\ \E key \in Keys : \E frameIndex \in ClickedFrames :
          LET prev == IF selectedFrames # Null THEN selectedFrames[1]
                      ELSE createInitialSelection(spriteAnalysis)
          IN /\ selectedFrames' = <<[prev EXCEPT ![key] = frameIndex]>>
             /\ selectionOrigin' =
                   [seed |-> IF selectedFrames # Null THEN selectionOrigin.seed
                             ELSE spriteAnalysis,
                    userKeys |-> selectionOrigin.userKeys \cup {key}]
    /\ selects' = selects + 1
    /\ UNCHANGED <<spriteSheetBase64, frames, spriteAnalysis, isAnalyzing, status,
                   pendingSlices, analysisRequest, analysesDone>>
    /\ UNCHANGED <<errorMsg, failedCalls>>
    /\ UNCHANGED <<editorVars, animatorVars, pipelineVars, smoothVars, analyzerVars, unitVars>>

NextSheet ==
    \/ SpriteSheetUpload
    \/ GenerateClicked
    \/ GenerationDone
    \/ GenerationFails
    \/ SliceDone
    \/ SliceFails
    \/ AnalyzeClicked
    \/ AnalysisDone
    \/ AnalysisFails
    \/ FrameSelect

SpecSheet == InitSheet /\ [][NextSheet]_vars

\* C25: a failed generateSprite or analyzeSpriteSheet call leaves an error
\* message and no partial state: its handler changes none of
\* spriteSheetBase64, frames, spriteAnalysis and selectedFrames; a failed
\* generation sets the status to ERROR, a failed analysis sets isAnalyzing
\* back to false.
C25_FailureKeepsSheetState ==
    [][/\ failedCalls' # failedCalls =>
            /\ UNCHANGED <<spriteSheetBase64, frames, spriteAnalysis, selectedFrames>>
            /\ errorMsg' # Null
       /\ failedCalls'.generation # failedCalls.generation => status' = "ERROR"
       /\ failedCalls'.analysis # failedCalls.analysis => isAnalyzing /\ ~isAnalyzing'
      ]_vars

\* Both calls have failed while a sheet was loaded, sliced and given a
\* selection.
C25_Witness ==
    /\ failedCalls.generation > 0
    /\ failedCalls.analysis > 0
    /\ spriteSheetBase64 # 0
    /\ frames # 0
    /\ selectedFrames # Null
    /\ status = "ERROR"
    /\ ~isAnalyzing
    /\ errorMsg # Null

----------------------------------------------------------------------------
\* Claims about the recording pipeline (checked under Spec)

Recording(i) == recordings[i].phase = "recording"

\* C1: at most one recording sequence is active at any time, and while one
\* is active no start timer is pending, so a trigger that arrives meanwhile
\* starts no second sequence.
C1_SingleRecording ==
    /\ Len(recordings) <= 1
    /\ recordings # <<>> => startTimers = <<>>

\* A regenerate trigger arrived while a recording is active.
C1_Witness ==
    /\ Len(recordings) = 1
    /\ mounted
    /\ regenerateKey > recordings[1].key
    /\ startTimers = <<>>

\* C2: for one audio source and one regenerateKey there is exactly one
\* recording attempt, however many times the effect runs again.
C2_OneAttemptPerTrigger ==
    \A p \in Pairs : attempts[p] <= 1

\* C3: once a recording is Done (an artifact exists for the current
\* regenerateKey and nothing is in flight), replacing the audio source
\* re-enters Preparing: the start timer of a new recording is armed.
C3_NewAudioRestarts ==
    [][(/\ mounted
        /\ ~videoGenerationRef
        /\ generatedVideoUrl # NoUrl
        /\ generatedVideoUrl.key = regenerateKey
        /\ audioSource' # audioSource)
       => startTimers' # <<>>]_vars

\* C4: the start timer armed for a regenerate trigger that was issued while
\* no recording was in flight (the editor's artifact is still reset) is never
\* dropped by a re-render (audio source and regenerateKey unchanged, session
\* still mounted): after the step it is still armed or the recording attempt
\* has started.
C4_RegenerateStarts ==
    [][(/\ mounted /\ mounted'
        /\ ~videoGenerationRef
        /\ regenerateKey > 0
        /\ editorVideoUrl = NoUrl
        /\ startTimers # <<>>
        /\ regenerateKey' = regenerateKey
        /\ audioSource' = audioSource)
       => (startTimers' # <<>> \/ TotalAttempts' > TotalAttempts)]_vars

\* C5: once an attempt for an audio source and regenerateKey has ended in
\* Error, no further attempt starts for the same audio source and key.
C5_NoRetryAfterError ==
    [][\A p \in Pairs : failures[p] > 0 => attempts'[p] = attempts[p]]_vars

\* C6: whenever no recording is active, every audio context acquired by
\* generateVideo is closed and every stream track is stopped.
C6_ErrorReleasesResources ==
    recordings = <<>> => (openAudioContexts = 0 /\ liveTracks = 0)

\* C7: an artifact URL, in the animator or in the editor, comes from an
\* attempt that did not end in Error and that consumed its whole
\* LoudnessFrame sequence.
C7_NoPartialArtifact ==
    \A u \in {generatedVideoUrl, editorVideoUrl} :
        u # NoUrl =>
            /\ u.frames = Len(ClipVolumes(u.audio))
            /\ attempts[<<u.audio, u.key>>] > failures[<<u.audio, u.key>>]

\* An attempt has ended in Error and nothing is published.
C7_Witness ==
    /\ \E p \in Pairs : failures[p] > 0 /\ attempts[p] = failures[p]
    /\ ~videoGenerationRef
    /\ generatedVideoUrl = NoUrl
    /\ editorVideoUrl = NoUrl

\* C8: after the session is torn down no mux-loop timer (updateFrame or
\* drain) of a recording is pending.
C8_TeardownCancelsTimers ==
    ~mounted => \A i \in 1..Len(recordings) : recordings[i].phase = "stopping"

\* C9: while a recording is in its Recording state every draw that changes
\* the surface is issued by the recording loop.
C9_SingleSurfaceWriter ==
    [][((\E i \in 1..Len(recordings) : Recording(i)) /\ surface' # surface)
       => surface'.by = "recording"]_vars

----------------------------------------------------------------------------
\* Claims about smoothTransition (checked under SpecSmooth)

\* C10: over every fed target sequence the displayed state never goes from
\* open to closed or from closed to open in one step; closed->open and
\* open->closed targets yield mid, mid->open yields open, mid->closed
\* yields closed.
C10_NoDirectJump ==
    \A k \in 1..Len(targets) :
        LET prev == displayed[k]
            next == displayed[k + 1]
            target == targets[k]
        IN
        /\ ~(prev = "open" /\ next = "closed")
        /\ ~(prev = "closed" /\ next = "open")
        /\ (prev = "closed" /\ target = "open") => next = "mid"
        /\ (prev = "open" /\ target = "closed") => next = "mid"
        /\ (prev = "mid" /\ target = "open") => next = "open"
        /\ (prev = "mid" /\ target = "closed") => next = "closed"

\* A closed mouth driven to open passes through mid and then arrives.
C10_Witness ==
    \E k \in 1..(Len(targets) - 1) :
        /\ displayed[k] = "closed"
        /\ targets[k] = "open"
        /\ displayed[k + 1] = "mid"
        /\ targets[k + 1] = "open"
        /\ displayed[k + 2] = "open"

----------------------------------------------------------------------------
\* Claims about analyzeAudioBuffer (checked under SpecAnalyze)

\* C11: for a buffer of duration D = length / sampleRate analysed at rate
\* F = fps, the call returns exactly ceil(D * F) frames (none for a buffer of
\* length zero), and the k-th frame, counted from 0, has the timestamp k / F:
\* the timestamps start at 0, increase strictly and are evenly spaced.
C11_FrameCountAndTimes ==
    analyzer.returned =>
        LET n == Len(analyzer.frames)
            length == Len(audioBuffer.channelData)
        IN /\ n * audioBuffer.sampleRate >= length * fps
           /\ n > 0 => (n - 1) * audioBuffer.sampleRate < length * fps
           /\ length = 0 => n = 0
           /\ \A k \in 1..n : analyzer.frames[k].time * fps = (k - 1) * 1000
           /\ \A k \in 1..(n - 1) :
                 /\ analyzer.frames[k + 1].time > analyzer.frames[k].time
                 /\ analyzer.frames[k + 1].time - analyzer.frames[k].time
                        = analyzer.frames[2].time - analyzer.frames[1].time

\* A call has returned at least three frames for a duration that is not a
\* whole number of frame intervals.
C11_Witness ==
    /\ analyzer.returned
    /\ Len(analyzer.frames) >= 3
    /\ (Len(audioBuffer.channelData) * fps) % audioBuffer.sampleRate # 0

\* C12: when the smoothed loudness of frame i exceeds the threshold, the
\* mouth state is 'open' at every frame j with i <= j < i + releaseFrames,
\* where releaseFrames = ceil(releaseTime * fps), whatever the loudness of
\* the frames after i.
C12_HeldOpenForRelease ==
    \A i \in 1..Len(analyzer.frames) : \A j \in i..Len(analyzer.frames) :
        /\ Above(analyzer.frames[i].volume, threshold)
        /\ (j - i) * 1000 < releaseTime * fps
        => analyzer.frames[j].mouthState = "open"

\* A frame below the threshold is open only because a frame above the
\* threshold lies less than releaseFrames before it.
C12_Witness ==
    /\ analyzer.returned
    /\ \E i \in 1..Len(analyzer.frames) : \E j \in (i + 1)..Len(analyzer.frames) :
          /\ Above(analyzer.frames[i].volume, threshold)
          /\ \A k \in (i + 1)..j : ~Above(analyzer.frames[k].volume, threshold)
          /\ (j - i) * 1000 < releaseTime * fps
          /\ analyzer.frames[j].mouthState = "open"

\* The buffer holds one second of samples, all of them zero.
SilentSecond ==
    /\ Len(audioBuffer.channelData) = audioBuffer.sampleRate
    /\ \A i \in 1..Len(audioBuffer.channelData) : audioBuffer.channelData[i] = 0

\* The arguments FaceAnimator's callers leave at their defaults.
DefaultArguments ==
    /\ fps = DefaultFps
    /\ threshold = DefaultThreshold
    /\ releaseTime = DefaultReleaseTime

\* C18: a silent audio of 1.0 second, analysed at fps 10 with threshold 0.01
\* and release time 0.1 s, yields 10 frames, every one of them 'closed' with
\* volume 0.  (The sample rate of an AudioBuffer is far above the frame rate,
\* so every window holds samples.)
C18_SilenceIsClosed ==
    (analyzer.returned /\ SilentSecond /\ DefaultArguments
        /\ audioBuffer.sampleRate >= fps)
    => /\ Len(analyzer.frames) = 10
       /\ \A k \in 1..Len(analyzer.frames) :
             /\ analyzer.frames[k].mouthState = "closed"
             /\ analyzer.frames[k].volume = 0

\* The analysis of one silent second with the default arguments has returned.
C18_Witness ==
    /\ analyzer.returned
    /\ SilentSecond
    /\ DefaultArguments
    /\ audioBuffer.sampleRate >= fps
    /\ Len(analyzer.frames) = 10

\* The buffer holds one second of samples: full scale during the first 50 ms,
\* zero afterwards.
BurstSecond ==
    /\ Len(audioBuffer.channelData) = audioBuffer.sampleRate
    /\ (50 * audioBuffer.sampleRate) % 1000 = 0
    /\ 50 * audioBuffer.sampleRate >= 1000
    /\ \A i \in 1..Len(audioBuffer.channelData) :
          audioBuffer.channelData[i] = IF (i - 1) * 1000 < 50 * audioBuffer.sampleRate
                                       THEN 1000 ELSE 0

\* C19: a clip of 1.0 second that is silent except for a full-scale burst of
\* 50 ms at t = 0, analysed at fps 10 with threshold 0.01 and release time
\* 0.1 s, has frame 0 'open', at least one later frame 'open', and a frame
\* after those 'closed'.
C19_BurstOpensThenCloses ==
    (analyzer.returned /\ BurstSecond /\ DefaultArguments)
    => /\ analyzer.frames[1].mouthState = "open"
       /\ \E j \in 2..Len(analyzer.frames) : \E k \in (j + 1)..Len(analyzer.frames) :
             /\ analyzer.frames[j].mouthState = "open"
             /\ analyzer.frames[k].mouthState = "closed"

\* The analysis of the burst clip with the default arguments has returned,
\* with its first frame above the threshold and its last frame below it.
C19_Witness ==
    /\ analyzer.returned
    /\ BurstSecond
    /\ DefaultArguments
    /\ Above(analyzer.frames[1].volume, threshold)
    /\ ~Above(analyzer.frames[Len(analyzer.frames)].volume, threshold)

\* C20: a window without samples (startSample at or beyond the end of the
\* channel, or samplesPerFrame = 0 because sampleRate < fps) counts as
\* loudness 0 for its frame: the frame's smoothed volume is 0.7 times the
\* previous one, and the volume of every frame, that one and the later ones,
\* is a number.
C20_EmptyWindowIsSilent ==
    \A k \in 1..Len(analyzer.frames) :
        /\ analyzer.frames[k].volume # NaN
        /\ WindowCount(k - 1) = 0 =>
              analyzer.frames[k].volume
                  = Smooth(IF k = 1 THEN 0 ELSE analyzer.frames[k - 1].volume, 0)

----------------------------------------------------------------------------
\* Claims about the frame selection and the sprite sheet (checked under SpecSheet)

\* The analysis (or null) the current selection was seeded from.
SeedOf == IF selectedFrames # Null THEN selectionOrigin.seed ELSE spriteAnalysis

C15_OverridesSurviveAnalysis ==
    [][analysesDone' = analysesDone + 1 =>
          \A key \in selectionOrigin.userKeys :
              selectedFrames'[1][key] = selectedFrames[1][key]]_vars

\* C16: spriteAnalysis is never non-null while it was computed from an image
\* other than the current spriteSheetBase64.
C16_AnalysisOfCurrentSheet ==
    spriteAnalysis # Null => spriteAnalysis[1].image = spriteSheetBase64

----------------------------------------------------------------------------
\* Claims about the recording pipeline (checked under FairSpec)

\* C17: with the browser firing its timers and events, every recording that
\* has started ends: the mux loop has consumed the whole sequence of volume
\* frames, the recorder was stopped, videoGenerationRef is cleared and the
\* artifact URL is handed to onVideoGenerated exactly once, whatever the user
\* does meanwhile; and a URL is published at no other moment.
C17_RecordingCompletes ==
    /\ (recordings # <<>>) ~> (recordings = <<>>)
    /\ [][(recordings # <<>> /\ recordings' = <<>>) =>
              /\ recordings[1].phase = StoppedPhase
              /\ recordings[1].frameIndex = Len(ClipVolumes(recordings[1].audio))
              /\ ~videoGenerationRef'
              /\ published' = published + 1]_vars
    /\ [][published' # published => (recordings # <<>> /\ recordings' = <<>>)]_vars

\* A recording has run to its end and its URL has reached the editor.
C17_Witness ==
    /\ published = 1
    /\ recordings = <<>>
    /\ ~videoGenerationRef
    /\ mounted
    /\ editorVideoUrl # NoUrl

----------------------------------------------------------------------------
\* classifyMouth over bounded volumes and props (SpecClassify)

MaxVolume == 40     \* largest volume classified, in thousandths

Volumes == {NaN} \cup 0..MaxVolume
VolumeThresholds == {0, 2, VolumeThreshold, 12}
PropThresholds == {Null, <<0>>, <<8>>, <<MouthMidThreshold>>}
ClassifierProps ==
    [volumeThreshold : VolumeThresholds, mouthMidThreshold : PropThresholds,
     mouthOpenThreshold : PropThresholds]

InitClassify ==
    /\ MainInit
    /\ SmoothIdle
    /\ AnalyzerIdle
    /\ SheetIdle
    /\ classifier \in [volume : Volumes, props : ClassifierProps, result : {Null}]
    /\ gemini = <<>>
    /\ preview = <<>>
    /\ partEditor = <<>>
    /\ recorder = <<>>
    /\ mouthSync = <<>>

\* One call of classifyMouth(volume).
Classify ==
    /\ classifier.result = Null
    /\ classifier' = [classifier EXCEPT
                        !.result = <<classifyMouthWith(classifier.volume, classifier.props)>>]
    /\ UNCHANGED <<editorVars, animatorVars, pipelineVars, smoothVars, analyzerVars, sheetVars,
                   gemini, preview, partEditor, recorder, mouthSync>>

NextClassify == Classify

SpecClassify == InitClassify /\ [][NextClassify]_vars

\* C21: classifyMouth returns a state for every volume and every pair of
\* thresholds, whichever of the two is larger: 'open' exactly when the
\* volume is at least the open threshold, otherwise 'mid' exactly when it
\* is at least the mid threshold, otherwise 'closed'.
C21_ClassifyMouthTotal ==
    classifier # <<>> /\ classifier.result # Null =>
        LET volume == classifier.volume
            mid == midThresholdOf(classifier.props)
            open == openThresholdOf(classifier.props)
            reachesOpen == volume # NaN /\ volume >= open
            reachesMid == volume # NaN /\ volume >= mid
            result == classifier.result[1]
        IN /\ result \in MouthStates
           /\ result = "open" <=> reachesOpen
           /\ result = "mid" <=> ~reachesOpen /\ reachesMid
           /\ result = "closed" <=> ~reachesOpen /\ ~reachesMid

\* A volume equal to both thresholds, the mid threshold not below the open
\* one, has been classified.
C21_Witness ==
    /\ classifier # <<>>
    /\ classifier.result = <<"open">>
    /\ classifier.volume = openThresholdOf(classifier.props)
    /\ midThresholdOf(classifier.props) >= openThresholdOf(classifier.props)

\* C22: analyzeAudioBuffer can be run again: two calls with the same buffer,
\* fps, threshold and release time return the same frames, whatever was
\* called in between.
C22_SameArgumentsSameFrames ==
    \A i, j \in 1..Len(calls) :
        calls[i].args = calls[j].args => calls[i].frames = calls[j].frames

\* A call that opened and closed the mouth was repeated after a call with
\* other arguments that returned with the mouth open.
C22_Witness ==
    /\ Len(calls) = 3
    /\ calls[3].args = calls[1].args
    /\ calls[2].args # calls[1].args
    /\ Len(calls[2].frames) > 0
    /\ calls[2].frames[Len(calls[2].frames)].mouthState = "open"
    /\ \E k \in 1..Len(calls[1].frames) : calls[1].frames[k].mouthState = "open"
    /\ \E k \in 1..Len(calls[1].frames) : calls[1].frames[k].mouthState = "closed"

----------------------------------------------------------------------------
\* geminiService: what generateSprite and analyzeSpriteSheet make of the
\* response of ai.models.generateContent (SpecGemini)

MaxParts == 3       \* parts in the first candidate's content

\* part.text: undefined, empty, not JSON, JSON
Texts == {Null, <<"">>, <<"oops">>, <<"{}">>}
\* part.inlineData: undefined, without data, with data
InlineData == {Null, <<"">>, <<"iVBOR">>}
Parts == [text : Texts, inlineData : InlineData]

\* The call throws, or returns a response without candidates[0].content.parts,
\* or returns one with parts.
Responses ==
    {[failed |-> TRUE, parts |-> Null], [failed |-> FALSE, parts |-> Null]}
    \cup {[failed |-> FALSE, parts |-> <<ps>>] :
            ps \in UNION {[1..n -> Parts] : n \in 0..MaxParts}}

\* A string is truthy unless it is undefined or empty.
Truthy(string) == string # Null /\ string[1] # ""

\* JSON.parse: the parsed value, or Null where it throws
JSONParse(text) == IF text = "{}" THEN <<[json |-> text]>> ELSE Null

Resolved(value) == [kind |-> "resolved", value |-> value]
Rejected(message) == [kind |-> "rejected", value |-> message]

\* The index the loop over the parts stops at: the least of the indices
\* that pass its test, 0 when none does.
FirstIndex(indices) ==
    IF indices = {} THEN 0
    ELSE CHOOSE i \in indices : \A j \in indices : i <= j

HasImage(part) == Truthy(part.inlineData)
HasText(part) == Truthy(part.text)

\* part.inlineData && part.inlineData.data
generateSpriteAnyInline(response) ==
    IF response.failed THEN Rejected("API error")
    ELSE IF response.parts = Null THEN Rejected("No image generated in the response.")
    ELSE LET parts == response.parts[1]
             i == FirstIndex({k \in 1..Len(parts) : parts[k].inlineData # Null})
         IN IF i = 0 THEN Rejected("No image generated in the response.")
            ELSE Resolved(<<"data:image/png;base64,", parts[i].inlineData[1]>>)

generateSprite(response) ==
    IF response.failed THEN Rejected("API error")
    ELSE IF response.parts = Null THEN Rejected("No image generated in the response.")
    ELSE LET parts == response.parts[1]
             i == FirstIndex({k \in 1..Len(parts) : HasImage(parts[k])})
         IN IF i = 0 THEN Rejected("No image generated in the response.")
            ELSE Resolved(<<"data:image/png;base64,", parts[i].inlineData[1]>>)

analyzeSpriteSheetLenient(response) ==
    IF response.failed THEN Rejected("API error")
    ELSE IF response.parts = Null THEN Rejected("No analysis data in the response.")
    ELSE LET parts == response.parts[1]
             i == FirstIndex({k \in 1..Len(parts) :
                                HasText(parts[k]) /\ JSONParse(parts[k].text[1]) # Null})
         IN IF i = 0 THEN Rejected("No analysis data in the response.")
            ELSE Resolved(JSONParse(parts[i].text[1])[1])

analyzeSpriteSheet(response) ==
    IF response.failed THEN Rejected("API error")
    ELSE IF response.parts = Null THEN Rejected("No analysis data in the response.")
    ELSE LET parts == response.parts[1]
             i == FirstIndex({k \in 1..Len(parts) : HasText(parts[k])})
         IN IF i = 0 THEN Rejected("No analysis data in the response.")
            ELSE IF JSONParse(parts[i].text[1]) = Null
                 THEN Rejected("Failed to parse analysis response as JSON")
                 ELSE Resolved(JSONParse(parts[i].text[1])[1])

InitGemini ==
    /\ MainInit
    /\ SmoothIdle
    /\ AnalyzerIdle
    /\ SheetIdle
    /\ classifier = <<>>
    /\ preview = <<>>
    /\ partEditor = <<>>
    /\ recorder = <<>>
    /\ mouthSync = <<>>
    /\ gemini \in [response : Responses, call : {Null}, outcome : {Null}]

\* generateSprite settles on the response.
GenerateSpriteSettles ==
    /\ gemini.call = Null
    /\ gemini' = [gemini EXCEPT !.call = <<"generateSprite">>,
                                !.outcome = <<generateSprite(gemini.response)>>]
    /\ UNCHANGED <<editorVars, animatorVars, pipelineVars, smoothVars, analyzerVars, sheetVars,
                   classifier, preview, partEditor, recorder, mouthSync>>

\* analyzeSpriteSheet settles on the response.
AnalyzeSpriteSheetSettles ==
    /\ gemini.call = Null
    /\ gemini' = [gemini EXCEPT !.call = <<"analyzeSpriteSheet">>,
                                !.outcome = <<analyzeSpriteSheet(gemini.response)>>]
    /\ UNCHANGED <<editorVars, animatorVars, pipelineVars, smoothVars, analyzerVars, sheetVars,
                   classifier, preview, partEditor, recorder, mouthSync>>

NextGemini == GenerateSpriteSettles \/ AnalyzeSpriteSheetSettles

SpecGemini == InitGemini /\ [][NextGemini]_vars

\* The parts of the response at hand, none when the call threw or the
\* response has no parts.
ResponseParts ==
    IF gemini.response.parts = Null THEN <<>> ELSE gemini.response.parts[1]

Settled(call) == gemini # <<>> /\ gemini.call = <<call>>

\* C23: generateSprite rejects whenever the response holds no part with
\* inline image data; it never resolves with a value then.
C23_NoImageRejects ==
    /\ Settled("generateSprite")
    /\ \A i \in 1..Len(ResponseParts) :
          ResponseParts[i].inlineData \in {Null, <<"">>}
    => gemini.outcome[1].kind = "rejected"

\* generateSprite has settled a response whose parts carry text and an
\* inlineData without data, but no image.
C23_Witness ==
    /\ Settled("generateSprite")
    /\ Len(ResponseParts) = 2
    /\ ResponseParts[1].text = <<"{}">>
    /\ ResponseParts[2].inlineData = <<"">>
    /\ ResponseParts[1].inlineData = Null
    /\ gemini.outcome[1].kind = "rejected"

CarriesText(part) == part.text # Null

\* C24 as stated: analyzeSpriteSheet rejects whenever the first part that
\* carries a text does not parse as JSON, or no part carries a text.
C24_FirstTextUnparseableRejects ==
    LET i == FirstIndex({k \in 1..Len(ResponseParts) : CarriesText(ResponseParts[k])})
    IN Settled("analyzeSpriteSheet")
       /\ (i = 0 \/ JSONParse(ResponseParts[i].text[1]) = Null)
       => gemini.outcome[1].kind = "rejected"

\* C24: analyzeSpriteSheet rejects whenever the first part with a non-empty
\* text does not parse as JSON, or no part has a non-empty text; what it
\* resolves with is always the parse of that first non-empty text.
C24_FirstNonEmptyTextDecides ==
    LET i == FirstIndex({k \in 1..Len(ResponseParts) : HasText(ResponseParts[k])})
    IN Settled("analyzeSpriteSheet") =>
         IF i = 0 \/ JSONParse(ResponseParts[i].text[1]) = Null
         THEN gemini.outcome[1].kind = "rejected"
         ELSE gemini.outcome[1] = Resolved(JSONParse(ResponseParts[i].text[1])[1])

\* analyzeSpriteSheet has rejected a response whose first non-empty text is
\* not JSON although a later part holds JSON.
C24_Witness ==
    /\ Settled("analyzeSpriteSheet")
    /\ Len(ResponseParts) = 3
    /\ ResponseParts[1].text = Null
    /\ ResponseParts[2].text = <<"oops">>
    /\ ResponseParts[3].text = <<"{}">>
    /\ gemini.outcome[1] = Rejected("Failed to parse analysis response as JSON")

----------------------------------------------------------------------------
\* FaceAnimator's preview loop: the effect on [frames, renderFrame] and the
\* 100 ms timer it keeps re-arming (SpecPreview)

MaxTimers == 6      \* preview timers created
MaxFrameLists == 2  \* distinct non-empty frames arrays passed as the prop

\* The component as mounted with frames = []: the effect body returned early.
PreviewMounted ==
    [frames |-> 0,              \* 0 = [], otherwise the id of a non-empty array
     pending |-> {},             \* ids of the preview timers not yet fired or cleared
     animationFrameRef |-> 0,    \* 0 = null, otherwise a timer id
     hasCleanup |-> FALSE,       \* the latest effect run returned a cleanup
     timersCreated |-> 0,
     currentFrameIndex |-> 0,
     ticks |-> 0,                \* history: calls of animate
     timerTicks |-> 0,           \* history: those of them made by a timer
     mounted |-> TRUE]

\* frames.length of the array with the given id
FrameListLength(frameList) == IF frameList = 0 THEN 0 ELSE frameList + 1

\* The effect's cleanup leaves pending timers alone.
PreviewCleanupKeeps(p) == p.pending

\* The effect's cleanup, when the latest run returned one:
\* if (animationFrameRef.current) clearTimeout(animationFrameRef.current)
PreviewCleanup(p) ==
    IF p.hasCleanup /\ p.animationFrameRef # 0
    THEN p.pending \ {p.animationFrameRef}
    ELSE p.pending

\* animate(): renderFrame, setCurrentFrameIndex, and a new 100 ms timer whose
\* id is stored in animationFrameRef.
animate(p, frameList, pending) ==
    [p EXCEPT !.currentFrameIndex = (@ + 1) % Max(FrameListLength(frameList), 1),
              !.ticks = @ + 1,
              !.timersCreated = @ + 1,
              !.pending = pending \cup {p.timersCreated + 1},
              !.animationFrameRef = p.timersCreated + 1]

\* A committed render whose frames or renderFrame differ from the previous
\* one: the previous run's cleanup, then the effect body with the new frames.
PreviewEffect(p, newFrames) ==
    LET cleared == PreviewCleanup(p)
    IN IF newFrames = 0
       THEN [p EXCEPT !.frames = 0, !.pending = cleared, !.hasCleanup = FALSE]
       ELSE [animate(p, newFrames, cleared) EXCEPT !.frames = newFrames, !.hasCleanup = TRUE]

InitPreview ==
    /\ MainInit
    /\ SmoothIdle
    /\ AnalyzerIdle
    /\ SheetIdle
    /\ classifier = <<>>
    /\ gemini = <<>>
    /\ partEditor = <<>>
    /\ recorder = <<>>
    /\ mouthSync = <<>>
    /\ preview = PreviewMounted

\* The parent passes another frames array, empty or not.
FramesChange ==
    /\ preview.mounted
    /\ \E newFrames \in 0..MaxFrameLists :
          /\ newFrames # preview.frames
          /\ newFrames # 0 => preview.timersCreated < MaxTimers
          /\ preview' = PreviewEffect(preview, newFrames)
    /\ UNCHANGED <<editorVars, animatorVars, pipelineVars, smoothVars, analyzerVars, sheetVars,
                   classifier, gemini, partEditor, recorder, mouthSync>>

\* eyeState, currentMouthState, the selection or debugGuides changed:
\* renderFrame is a new function and the effect runs again.
RenderFrameChange ==
    /\ preview.mounted
    /\ preview.frames # 0 => preview.timersCreated < MaxTimers
    /\ preview' = PreviewEffect(preview, preview.frames)
    /\ UNCHANGED <<editorVars, animatorVars, pipelineVars, smoothVars, analyzerVars, sheetVars,
                   classifier, gemini, partEditor, recorder, mouthSync>>

\* A pending preview timer fires and calls animate.
PreviewTimerFires ==
    /\ preview.timersCreated < MaxTimers
    /\ \E t \in preview.pending :
          preview' = [animate(preview, preview.frames, preview.pending \ {t})
                         EXCEPT !.timerTicks = @ + 1]
    /\ UNCHANGED <<editorVars, animatorVars, pipelineVars, smoothVars, analyzerVars, sheetVars,
                   classifier, gemini, partEditor, recorder, mouthSync>>

\* The component unmounts: the cleanup of the latest run.
PreviewUnmount ==
    /\ preview.mounted
    /\ preview' = [preview EXCEPT !.mounted = FALSE, !.pending = PreviewCleanup(preview)]
    /\ UNCHANGED <<editorVars, animatorVars, pipelineVars, smoothVars, analyzerVars, sheetVars,
                   classifier, gemini, partEditor, recorder, mouthSync>>

NextPreview == FramesChange \/ RenderFrameChange \/ PreviewTimerFires \/ PreviewUnmount

SpecPreview == InitPreview /\ [][NextPreview]_vars

\* C26: at most one preview timer is pending at any moment, none is pending
\* while frames is empty, and no preview tick fires as long as frames stays
\* empty.
C26_PreviewLoopStops ==
    /\ [](preview # <<>> =>
            /\ Cardinality(preview.pending) <= 1
            /\ preview.frames = 0 => preview.pending = {})
    /\ [][preview # <<>> /\ preview.frames = 0 /\ preview'.frames = 0 =>
             preview'.ticks = preview.ticks]_vars

\* frames has become empty after the loop ticked from a timer, and the
\* effect had been restarted by a new renderFrame before.
C26_Witness ==
    /\ preview # <<>>
    /\ preview.mounted
    /\ preview.frames = 0
    /\ preview.timerTicks >= 2
    /\ preview.ticks >= 4
    /\ preview.timersCreated >= 3
    /\ preview.pending = {}

\* C27: eyeState is written by the blink scheduler alone, never by the
\* renderer, the preview loop or the mux loop; currentMouthState is written
\* only by the recording pipeline, in generateVideo's initialisation and in
\* updateFrame.
C27_SingleWriter ==
    [][/\ eyeState' # eyeState => Blink
       /\ currentMouthState' # currentMouthState => GenerateVideo \/ UpdateFrameFires
       /\ PreviewTick => UNCHANGED <<eyeState, currentMouthState>>
      ]_vars

\* The mux loop has moved the mouth after a blink closed the eyes, and the
\* preview loop drew the result.
C27_Witness ==
    /\ eyeState = "closed"
    /\ currentMouthState = "open"
    /\ surface = PreviewDraw("closed", "open")
    /\ \E i \in 1..Len(recordings) : recordings[i].frameIndex >= 2

\* C30: the renderFrame call that follows a mouth-state update of the mux
\* loop draws the frame of the mouth state just computed and of the current
\* eye state, not of the states captured when the recording effect was set
\* up.
C30_MuxDrawIsCurrent ==
    [][UpdateFrameFires /\ surface' # surface =>
          /\ surface'.mouth = mouthStateRef'
          /\ surface'.eye = eyeState']_vars

----------------------------------------------------------------------------
\* FacePartEditor: dragging one part's rectangle (SpecParts).  Normalized
\* coordinates are counted in units of 1 / One.

One == 8            \* the normalized length 1; pointer positions are 0..One
MaxDrags == 2       \* mouse-down events on the rectangle

Handles == {"move", "nw", "n", "ne", "e", "se", "s", "sw", "w"}

\* v > 0.01 for a normalized length v
AboveMinSize(v) == v * 100 > One

\* getHandleAt: the pointer position at which the handle is grabbed, the
\* grid point at the handle (for 'move', at the middle of the rectangle).
HandleX(handle, r) ==
    IF handle \in {"nw", "w", "sw"} THEN r.x
    ELSE IF handle \in {"ne", "e", "se"} THEN r.x + r.w
    ELSE r.x + r.w \div 2
HandleY(handle, r) ==
    IF handle \in {"nw", "n", "ne"} THEN r.y
    ELSE IF handle \in {"sw", "s", "se"} THEN r.y + r.h
    ELSE r.y + r.h \div 2

\* handle === 'move'
MoveRect(r, dx, dy) ==
    [r EXCEPT !.x = Max(0, Min(One - r.w, r.x + dx)),
              !.y = Max(0, Min(One - r.h, r.y + dy))]

\* if (handle === 'nw' || handle === 'n' || handle === 'w')
ResizeNW(handle, r, dx, dy) ==
    LET newW == r.w - dx
        newH == IF handle \in {"nw", "n"} THEN r.h - dy ELSE r.h
    IN IF handle \in {"nw", "n", "w"} /\ AboveMinSize(newW) /\ AboveMinSize(newH)
       THEN [x |-> IF handle \in {"nw", "w"} THEN Max(0, r.x + dx) ELSE r.x,
             y |-> IF handle \in {"nw", "n"} THEN Max(0, r.y + dy) ELSE r.y,
             w |-> newW,
             h |-> IF handle \in {"nw", "n"} THEN newH ELSE r.h]
       ELSE r

\* if (handle === 'ne' || handle === 'n' || handle === 'e')
ResizeNE(handle, r, dx, dy) ==
    LET newW == IF handle \in {"ne", "e"} THEN r.w + dx ELSE r.w
        newH == IF handle \in {"ne", "n"} THEN r.h - dy ELSE r.h
    IN IF handle \in {"ne", "n", "e"} /\ AboveMinSize(newW) /\ AboveMinSize(newH)
       THEN [x |-> r.x,
             y |-> IF handle \in {"ne", "n"} THEN Max(0, r.y + dy) ELSE r.y,
             w |-> newW,
             h |-> IF handle \in {"ne", "n"} THEN newH ELSE r.h]
       ELSE r

\* if (handle === 'sw' || handle === 's' || handle === 'w')
ResizeSW(handle, r, dx, dy) ==
    LET newW == IF handle \in {"sw", "w"} THEN r.w - dx ELSE r.w
        newH == IF handle \in {"sw", "s"} THEN r.h + dy ELSE r.h
    IN IF handle \in {"sw", "s", "w"} /\ AboveMinSize(newW) /\ AboveMinSize(newH)
       THEN [x |-> IF handle \in {"sw", "w"} THEN Max(0, r.x + dx) ELSE r.x,
             y |-> r.y,
             w |-> newW,
             h |-> newH]
       ELSE r

\* if (handle === 'se' || handle === 's' || handle === 'e')
ResizeSE(handle, r, dx, dy) ==
    LET newW == IF handle \in {"se", "e"} THEN r.w + dx ELSE r.w
        newH == IF handle \in {"se", "s"} THEN r.h + dy ELSE r.h
    IN IF /\ handle \in {"se", "s", "e"}
          /\ AboveMinSize(newW) /\ AboveMinSize(newH)
          /\ r.x + newW <= One /\ r.y + newH <= One
       THEN [r EXCEPT !.w = newW, !.h = newH]
       ELSE r

\* The rectangle handleMouseMove stores: the four resize blocks run one
\* after the other on the same currentRect.
DraggedRect(handle, startRect, dx, dy) ==
    IF handle = "move" THEN MoveRect(startRect, dx, dy)
    ELSE ResizeSE(handle,
           ResizeSW(handle,
             ResizeNE(handle,
               ResizeNW(handle, startRect, dx, dy), dx, dy), dx, dy), dx, dy)

InFrame(r) == r.x >= 0 /\ r.y >= 0 /\ r.x + r.w <= One /\ r.y + r.h <= One

\* The editor as mounted with a rectangle inside the frame.
InitParts ==
    /\ MainInit
    /\ SmoothIdle
    /\ AnalyzerIdle
    /\ SheetIdle
    /\ classifier = <<>>
    /\ gemini = <<>>
    /\ preview = <<>>
    /\ recorder = <<>>
    /\ mouthSync = <<>>
    /\ partEditor = [rect |-> [x |-> 3, y |-> 3, w |-> 2, h |-> 2],
                     dragging |-> Null, drags |-> 0]

\* handleMouseDown on a handle of the rectangle or inside it.
MouseDown ==
    /\ partEditor.drags < MaxDrags
    /\ \E handle \in Handles :
          LET r == partEditor.rect
              x == HandleX(handle, r)
              y == HandleY(handle, r)
          IN /\ x \in 0..One
             /\ y \in 0..One
             /\ partEditor' = [partEditor EXCEPT
                                 !.dragging = <<[handle |-> handle, startX |-> x,
                                                 startY |-> y, startRect |-> r]>>,
                                 !.drags = @ + 1]
    /\ UNCHANGED <<editorVars, animatorVars, pipelineVars, smoothVars, analyzerVars, sheetVars,
                   classifier, gemini, preview, recorder, mouthSync>>

\* handleMouseMove with the pointer somewhere over the container.
MouseMove ==
    /\ partEditor.dragging # Null
    /\ \E x \in 0..One, y \in 0..One :
          LET d == partEditor.dragging[1]
          IN partEditor' = [partEditor EXCEPT
                              !.rect = DraggedRect(d.handle, d.startRect,
                                                   x - d.startX, y - d.startY)]
    /\ UNCHANGED <<editorVars, animatorVars, pipelineVars, smoothVars, analyzerVars, sheetVars,
                   classifier, gemini, preview, recorder, mouthSync>>

\* handleMouseUp, also called when the pointer leaves the container.
MouseUp ==
    /\ partEditor.dragging # Null
    /\ partEditor' = [partEditor EXCEPT !.dragging = Null]
    /\ UNCHANGED <<editorVars, animatorVars, pipelineVars, smoothVars, analyzerVars, sheetVars,
                   classifier, gemini, preview, recorder, mouthSync>>

NextParts == MouseDown \/ MouseMove \/ MouseUp

SpecParts == InitParts /\ [][NextParts]_vars

\* C28: every rectangle a sequence of drags produces, by moving it or by
\* any of the eight resize handles, lies inside the frame: x >= 0, y >= 0,
\* x + w <= 1, y + h <= 1.
C28_RectStaysInFrame ==
    partEditor # <<>> => InFrame(partEditor.rect)

\* C29: the blink scheduler can be cancelled cleanly: once the session that
\* owns it has ended, no eye-state transition fires any more.
C29_NoBlinkAfterCancel ==
    [][~mounted => eyeState' = eyeState]_vars

\* The session ended while the eyes were closed by a blink, and a recording
\* started before went on afterwards.
C29_Witness ==
    /\ ~mounted
    /\ eyeState = "closed"
    /\ \E i \in 1..Len(recordings) : recordings[i].elapsed >= 2

----------------------------------------------------------------------------
\* generateVideo statement by statement (FaceAnimator, part_002 163-252)
\*
\* One call of generateVideo on the browser's event loop.  A callback runs
\* to completion; `tick` counts the callbacks started so far, so two calls
\* logged with the same tick ran with no suspension point between them.
\* The clock is in units of 50 ms and does not advance inside a callback.

MaxLoudnessFrames == 2   \* length of the precomputed LoudnessFrame sequence
MaxOthers == 1           \* unrelated callbacks (preview, blink) taken into account

GenerateVideoBodyStartsEarly ==
    <<"analyzeAudioBuffer", "captureStream", "new AudioContext", "createBufferSource",
      "createMediaStreamDestination", "connect", "source.start", "addTrack",
      "new MediaRecorder", "mediaRecorder.start", "Date.now", "renderFrame",
      "setTimeout(updateFrame)", "await recordingPromise">>

\* The calls of the try block, in program order.
GenerateVideoBody ==
    <<"analyzeAudioBuffer", "captureStream", "new AudioContext", "createBufferSource",
      "createMediaStreamDestination", "connect", "addTrack", "new MediaRecorder",
      "source.start", "mediaRecorder.start", "Date.now", "renderFrame",
      "setTimeout(updateFrame)", "await recordingPromise">>

DrainBodySourceFirst ==
    <<"source.stop", "mediaRecorder.stop", "track.stop", "audioContext.close">>

\* The calls of the drain timer's callback, in program order.
DrainBody ==
    <<"mediaRecorder.stop", "source.stop", "track.stop", "audioContext.close">>

\* Calls of the try block the browser may reject.
ThrowingCalls == {"captureStream", "new AudioContext", "new MediaRecorder", "mediaRecorder.start"}

BodyOf(callback) == IF callback = "generateVideo" THEN GenerateVideoBody ELSE DrainBody

Entry(call, arg) == [call |-> call, tick |-> recorder.tick, clock |-> recorder.clock, arg |-> arg]

\* Indices of the log entries of one call.
Logged(call) == {i \in 1..Len(recorder.log) : recorder.log[i].call = call}

DueTimers(callback) ==
    {t \in recorder.timers : t.callback = callback /\ t.due <= recorder.clock}

InitRecorder ==
    /\ MainInit
    /\ SmoothIdle
    /\ AnalyzerIdle
    /\ SheetIdle
    /\ classifier = <<>>
    /\ gemini = <<>>
    /\ preview = <<>>
    /\ partEditor = <<>>
    /\ mouthSync = <<>>
    /\ \E n \in 0..MaxLoudnessFrames :
          recorder = [callback |-> "generateVideo", pc |-> 1, tick |-> 1, clock |-> 0,
                      log |-> <<>>, timers |-> {}, volumeFrames |-> n, frameIndex |-> 0,
                      startTime |-> 0, stopQueued |-> FALSE, videoGenerationRef |-> TRUE,
                      others |-> 0]

\* What one call does besides being made.
Effect(call, r) ==
    IF call = "Date.now" THEN [r EXCEPT !.startTime = r.clock]
    ELSE IF call = "setTimeout(updateFrame)"
    THEN [r EXCEPT !.timers = @ \cup {[callback |-> "updateFrame", due |-> r.clock + StartDelay]}]
    ELSE IF call = "mediaRecorder.stop" THEN [r EXCEPT !.stopQueued = TRUE]
    ELSE r

\* The running callback makes its next call; after the last one, or at an
\* await, it gives the event loop back.
RunStatement ==
    /\ recorder.callback \in {"generateVideo", "drain"}
    /\ LET body == BodyOf(recorder.callback)
           call == body[recorder.pc]
           skipped == call = "renderFrame" /\ recorder.volumeFrames = 0
           made == IF skipped THEN recorder
                   ELSE Effect(call, [recorder EXCEPT !.log = Append(@, Entry(call, 0))])
       IN recorder' = IF recorder.pc = Len(body)
                      THEN [made EXCEPT !.callback = "idle", !.pc = 0]
                      ELSE [made EXCEPT !.pc = @ + 1]
    /\ UNCHANGED <<editorVars, animatorVars, pipelineVars, smoothVars, analyzerVars, sheetVars,
                   classifier, gemini, preview, partEditor, mouthSync>>

\* The next call of the try block throws: the catch block runs.
Throws ==
    /\ recorder.callback = "generateVideo"
    /\ GenerateVideoBody[recorder.pc] \in ThrowingCalls
    /\ recorder' = [recorder EXCEPT !.log = Append(@, Entry("catch", 0)),
                                    !.videoGenerationRef = FALSE,
                                    !.callback = "idle", !.pc = 0]
    /\ UNCHANGED <<editorVars, animatorVars, pipelineVars, smoothVars, analyzerVars, sheetVars,
                   classifier, gemini, preview, partEditor, mouthSync>>

\* The setTimeout(updateFrame, ...) callback.
UpdateFrameCallback ==
    /\ recorder.callback = "idle"
    /\ \E t \in DueTimers("updateFrame") :
          LET r == [recorder EXCEPT !.tick = @ + 1, !.timers = @ \ {t}]
              elapsed == r.clock - r.startTime
              consume == elapsed >= FrameTime(r.frameIndex)
              newIndex == IF consume THEN r.frameIndex + 1 ELSE r.frameIndex
              waitTime == IF newIndex < r.volumeFrames
                          THEN Min(Max(0, FrameTime(newIndex) - elapsed), FrameInterval)
                          ELSE FrameInterval
              at == [call |-> "", tick |-> r.tick, clock |-> r.clock, arg |-> r.frameIndex]
          IN recorder' =
                IF Exhausted(r.frameIndex, r.volumeFrames)
                THEN [r EXCEPT !.log = Append(@, [at EXCEPT !.call = "exhausted"]),
                               !.timers = @ \cup {[callback |-> "drain",
                                                   due |-> r.clock + DrainDelay]}]
                ELSE [r EXCEPT !.log = IF consume
                                       THEN Append(@, [at EXCEPT !.call = "consume"])
                                       ELSE @,
                               !.frameIndex = newIndex,
                               !.timers = @ \cup {[callback |-> "updateFrame",
                                                   due |-> r.clock + waitTime]}]
    /\ UNCHANGED <<editorVars, animatorVars, pipelineVars, smoothVars, analyzerVars, sheetVars,
                   classifier, gemini, preview, partEditor, mouthSync>>

\* The 200 ms timer armed at exhaustion fires: its callback starts.
DrainTimerFires ==
    /\ recorder.callback = "idle"
    /\ \E t \in DueTimers("drain") :
          recorder' = [recorder EXCEPT !.tick = @ + 1, !.timers = @ \ {t},
                                       !.callback = "drain", !.pc = 1]
    /\ UNCHANGED <<editorVars, animatorVars, pipelineVars, smoothVars, analyzerVars, sheetVars,
                   classifier, gemini, preview, partEditor, mouthSync>>

\* mediaRecorder.onstop; it resolves recordingPromise, so generateVideo
\* returns from its await.
OnStopEvent ==
    /\ recorder.callback = "idle"
    /\ recorder.stopQueued
    /\ recorder' = [recorder EXCEPT !.tick = @ + 1, !.stopQueued = FALSE,
                                    !.videoGenerationRef = FALSE,
                                    !.log = Append(@, [call |-> "onstop", tick |-> recorder.tick + 1,
                                                       clock |-> recorder.clock, arg |-> 0])]
    /\ UNCHANGED <<editorVars, animatorVars, pipelineVars, smoothVars, analyzerVars, sheetVars,
                   classifier, gemini, preview, partEditor, mouthSync>>

\* Time passes between callbacks; a due timer runs at most MaxLate late.
ClockAdvances ==
    /\ recorder.callback = "idle"
    /\ recorder.timers # {}
    /\ \A t \in recorder.timers : recorder.clock < t.due + MaxLate
    /\ recorder' = [recorder EXCEPT !.clock = @ + 1]
    /\ UNCHANGED <<editorVars, animatorVars, pipelineVars, smoothVars, analyzerVars, sheetVars,
                   classifier, gemini, preview, partEditor, mouthSync>>

\* A callback of another effect (preview loop, blink timer) takes a turn.
OtherCallback ==
    /\ recorder.callback = "idle"
    /\ recorder.others < MaxOthers
    /\ recorder' = [recorder EXCEPT !.tick = @ + 1, !.others = @ + 1]
    /\ UNCHANGED <<editorVars, animatorVars, pipelineVars, smoothVars, analyzerVars, sheetVars,
                   classifier, gemini, preview, partEditor, mouthSync>>

NextRecorder ==
    \/ RunStatement
    \/ Throws
    \/ UpdateFrameCallback
    \/ DrainTimerFires
    \/ OnStopEvent
    \/ ClockAdvances
    \/ OtherCallback

SpecRecorder == InitRecorder /\ [][NextRecorder]_vars

\* The resources that have to be attached before playback and recording start.
Attached == {"captureStream", "createMediaStreamDestination", "connect", "addTrack",
             "new MediaRecorder"}

\* C31: audio playback and the recorder are started in the same tick, with
\* no callback or await between source.start and mediaRecorder.start, and
\* neither is started before the captured stream, the audio destination
\* and its track are attached.
C31_StartedTogether ==
    recorder # <<>> =>
        /\ \A i \in Logged("mediaRecorder.start") :
              \E j \in Logged("source.start") :
                 /\ j < i
                 /\ recorder.log[j].tick = recorder.log[i].tick
                 /\ \A k \in j..i : recorder.log[k].tick = recorder.log[i].tick
        /\ \A i \in Logged("source.start") \cup Logged("mediaRecorder.start") :
              \A resource \in Attached :
                 \E k \in 1..(i - 1) : recorder.log[k].call = resource

\* Both were started, and the recording ran to its stop event.
C31_Witness ==
    /\ recorder # <<>>
    /\ Logged("source.start") # {}
    /\ Logged("mediaRecorder.start") # {}
    /\ Logged("onstop") # {}

\* C32: the recorder is stopped only after the LoudnessFrame sequence is
\* exhausted and the 200 ms drain interval has elapsed since then, and its
\* stop is requested before the audio source is stopped, the tracks are
\* stopped and the audio context is closed.
C32_StopAfterDrain ==
    recorder # <<>> =>
        /\ \A i \in Logged("mediaRecorder.stop") :
              /\ Cardinality(Logged("consume")) = recorder.volumeFrames
              /\ \E j \in Logged("exhausted") :
                    /\ j < i
                    /\ recorder.log[j].arg = recorder.volumeFrames
                    /\ recorder.log[i].clock - recorder.log[j].clock >= DrainDelay
        /\ \A k \in Logged("source.stop") \cup Logged("track.stop")
                        \cup Logged("audioContext.close") :
              \E i \in Logged("mediaRecorder.stop") : i < k

\* A two-frame recording was torn down completely.
C32_Witness ==
    /\ recorder # <<>>
    /\ recorder.volumeFrames = MaxLoudnessFrames
    /\ Logged("audioContext.close") # {}

\* C33: the mux loop consumes the LoudnessFrames in index order, each
\* exactly once and at most one per callback of the loop, never before the
\* elapsed playback time has reached the frame's timestamp, and it has
\* consumed every frame when it finds the sequence exhausted, however late
\* its timer callbacks ran.
C33_FramesInOrder ==
    recorder # <<>> =>
        /\ \A i \in Logged("consume") :
              /\ recorder.log[i].arg = Cardinality({j \in Logged("consume") : j < i})
              /\ recorder.log[i].clock - recorder.startTime >= FrameTime(recorder.log[i].arg)
              /\ \A j \in Logged("consume") :
                    j # i => recorder.log[j].tick # recorder.log[i].tick
        /\ \A i \in Logged("exhausted") :
              Cardinality({j \in Logged("consume") : j < i}) = recorder.volumeFrames

\* Both frames of a recording were consumed, the second one by a callback
\* that ran later than the frame's timestamp.
C33_Witness ==
    /\ recorder # <<>>
    /\ Logged("exhausted") # {}
    /\ \E i \in Logged("consume") :
          /\ recorder.log[i].arg = 1
          /\ recorder.log[i].clock - recorder.startTime > FrameTime(1)

\* The artifact the editor shows was published after the last regenerate
\* click: the click arrived while that recording was in flight, and the
\* recording it asked for has not been attempted yet.
DeferredTrigger ==
    /\ mounted
    /\ editorVideoUrl # NoUrl
    /\ editorVideoUrl.audio = audioSource
    /\ editorVideoUrl.key < regenerateKey
    /\ attempts[<<audioSource, regenerateKey>>] = 0

\* C34: a regenerate trigger that arrives while a recording is in flight
\* starts no second recording beside it; when the in-flight recording is
\* Done the start of one recording for the new regenerateKey is armed, it
\* stays armed until that recording starts (as long as the audio source
\* and the key stay the same and the session is mounted), and no second
\* one is started for that key.
C34_DeferredRegenerate ==
    /\ [](Len(recordings) <= 1)
    /\ [][(DeferredTrigger' /\ ~DeferredTrigger) => startTimers' # <<>>]_vars
    /\ [][(/\ DeferredTrigger
           /\ startTimers # <<>>
           /\ mounted'
           /\ regenerateKey' = regenerateKey
           /\ audioSource' = audioSource)
          => (startTimers' # <<>> \/ attempts'[<<audioSource, regenerateKey>>] = 1)]_vars
    /\ [](\A p \in Pairs : failures[p] = 0 => attempts[p] <= 1)

\* C35: the artifact the editor shows was recorded from the audio source
\* that is current: a recording of a replaced audio source is never
\* published as the result for the new one.
C35_ArtifactOfCurrentAudio ==
    editorVideoUrl # NoUrl => editorVideoUrl.audio = audioSource

----------------------------------------------------------------------------
\* The mouth states of a recording under different volume thresholds
\* (FaceAnimator, part_002 136-142, 159-161, 215-240): generateVideo calls
\* analyzeAudioBuffer(audioSource, fps, volumeThreshold, 0.1) with fps = 10
\* and runs the returned frames through classifyMouth and smoothTransition.

MaxThresholdCalls == 2      \* recordings of one buffer that are compared

SliderThresholds == {0, DefaultThreshold, 30, 600}

\* The first call is generateVideo's; the release time of 100 gives the same
\* releaseFrames (1) as the 0.1 generateVideo passes.
InitThreshold ==
    /\ InitAnalyze
    /\ fps = DefaultFps
    /\ releaseTime = DefaultReleaseTime

\* The volume threshold slider was moved and the same buffer is recorded
\* again: the next call differs in its threshold only.
CallWithThreshold ==
    /\ analyzer.returned
    /\ Len(calls) < MaxThresholdCalls
    /\ threshold' \in SliderThresholds \ {threshold}
    /\ analyzer' = EntryLocals(analyzer)
    /\ UNCHANGED <<audioBuffer, fps, releaseTime, calls>>
    /\ UNCHANGED <<editorVars, animatorVars, pipelineVars, smoothVars, sheetVars, unitVars>>

NextThreshold == LoopIteration \/ Return \/ CallWithThreshold

SpecThreshold == InitThreshold /\ [][NextThreshold]_vars

MouthTargetOfAnalyzer(frame, props) == frame.mouthState

\* The target the mux loop derives from a LoudnessFrame.
MouthTarget(frame, props) == classifyMouthWith(frame.volume, props)

\* The states updateFrame displays for the frames from index i on.
RECURSIVE MuxMouths(_, _, _, _)
MuxMouths(volumeFrames, i, props, current) ==
    IF i > Len(volumeFrames) THEN <<>>
    ELSE LET nextMouth == smoothTransition(current, MouthTarget(volumeFrames[i], props))
         IN <<nextMouth>> \o MuxMouths(volumeFrames, i + 1, props, nextMouth)

\* The mouth states a recording displays: the initial one, then one per frame.
DisplayedMouths(volumeFrames, props) ==
    IF Len(volumeFrames) = 0 THEN <<>>
    ELSE LET initial == MouthTarget(volumeFrames[1], props)
         IN <<initial>> \o MuxMouths(volumeFrames, 1, props, initial)

EditorProps(t, mid, open) ==
    [volumeThreshold |-> t, mouthMidThreshold |-> <<mid>>, mouthOpenThreshold |-> <<open>>]

\* Values of the mouthMidThreshold and mouthOpenThreshold sliders.
SuppliedThresholds ==
    {<<MouthMidThreshold, MouthOpenThreshold>>, <<0, 30>>, <<30, 600>>}

\* C36: with mouthMidThreshold and mouthOpenThreshold supplied, two
\* recordings of the same buffer display the same sequence of mouth states
\* whatever their volumeThreshold values are.
C36_ThresholdDoesNotShow ==
    \A i \in 1..Len(calls) : \A j \in (i + 1)..Len(calls) :
       \A supplied \in SuppliedThresholds :
          calls[i].args.audioBuffer = calls[j].args.audioBuffer
          => DisplayedMouths(calls[i].frames,
                             EditorProps(calls[i].args.threshold, supplied[1], supplied[2]))
             = DisplayedMouths(calls[j].frames,
                               EditorProps(calls[j].args.threshold, supplied[1], supplied[2]))

\* Two recordings of one buffer whose analyses disagree on a frame's
\* mouthState, and the mouth is displayed open at some point.
C36_Witness ==
    \E i, j \in 1..Len(calls) :
       /\ calls[i].args.threshold # calls[j].args.threshold
       /\ \E k \in 1..Len(calls[i].frames) :
             calls[i].frames[k].mouthState # calls[j].frames[k].mouthState
       /\ \E k \in 1..(Len(calls[i].frames) + 1) :
             DisplayedMouths(calls[i].frames,
                             EditorProps(calls[i].args.threshold, MouthMidThreshold,
                                         MouthOpenThreshold))[k] = "open"

----------------------------------------------------------------------------
\* Claims about seeded selections (checked under SpecSheet)

MidKeys == {KeyOf(eye, "mid") : eye \in EyeStates}

\* C37: a selection seeded by the defaults or by an analysis, with no key
\* set by the user, holds the recommended eyes-open frame (0 without one)
\* in both eyes-open rows for mouth 'open' and 'closed' and the recommended
\* mouth-open frame in the two 'mid' keys and in no other key; the
\* recommended mouth-closed frame reaches no key when the recommended
\* eyes-closed frame is not 0, and only eyesClosedMouthClosed otherwise.
C37_SeededRows ==
    selectionOrigin.userKeys = {} =>
        LET seeded == resolvedSelection
            eyesClosed == Recommended(SeedOf, "recommendedEyesClosedFrame")
        IN
        /\ seeded.eyesOpenMouthOpen = Recommended(SeedOf, "recommendedEyesOpenFrame")
        /\ seeded.eyesOpenMouthClosed = seeded.eyesOpenMouthOpen
        /\ \A key \in MidKeys : seeded[key] = Recommended(SeedOf, "recommendedMouthOpenFrame")
        /\ seeded.eyesClosedMouthOpen = eyesClosed
        /\ seeded.eyesClosedMouthClosed =
              IF eyesClosed # 0 THEN eyesClosed
              ELSE Recommended(SeedOf, "recommendedMouthClosedFrame")
        /\ SeedOf # Null =>
              /\ \A other \in MouthClosedIndices : \A key \in Keys :
                    (eyesClosed # 0 \/ key # "eyesClosedMouthClosed") =>
                       createInitialSelection(
                          <<[SeedOf[1] EXCEPT !.recommendedMouthClosedFrame = other]>>)[key]
                       = seeded[key]
              /\ \A other \in MouthOpenIndices : \A key \in Keys \ MidKeys :
                    createInitialSelection(
                       <<[SeedOf[1] EXCEPT !.recommendedMouthOpenFrame = other]>>)[key]
                    = seeded[key]

\* The selection was seeded by an analysis that recommends four different
\* frames, none of them 0, and the user has set no key.
C37_Witness ==
    /\ selectedFrames # Null
    /\ selectionOrigin.seed # Null
    /\ selectionOrigin.userKeys = {}
    /\ \A field \in DOMAIN selectionOrigin.seed[1] : selectionOrigin.seed[1][field] # 0

\* No slicing, generation or analysis is in flight.
SheetQuiescent ==
    /\ pendingSlices = {}
    /\ ~isAnalyzing
    /\ status # "GENERATING_SPRITE"

\* C38: once every pending sprite sheet operation has completed, frames
\* holds the slices of the current spriteSheetBase64 and the analysis, if
\* there is one, was computed from the current sheet: no result of a
\* replaced sheet has been applied.
C38_ResultsOfCurrentSheet ==
    (SheetQuiescent /\ spriteSheetBase64 # 0) =>
        /\ frames \in {0, spriteSheetBase64}
        /\ spriteAnalysis # Null => spriteAnalysis[1].image = spriteSheetBase64

----------------------------------------------------------------------------
\* Claims about the analyzer's release (checked under SpecAnalyze)

\* The frames before frame j (counted from 1) whose volume exceeded the threshold.
AboveBefore(j) == {i \in 1..(j - 1) : Above(analyzer.frames[i].volume, threshold)}

Latest(indices) == CHOOSE i \in indices : \A k \in indices : k <= i

\* C39: a frame whose smoothed loudness does not exceed the threshold is
\* 'closed' whenever no earlier frame exceeded it or the latest frame that
\* did lies releaseFrames or more frames back; so the mouth is held open
\* for at most releaseFrames - 1 frames after the last frame above the
\* threshold.
C39_ClosedAfterRelease ==
    \A j \in 1..Len(analyzer.frames) :
       ~Above(analyzer.frames[j].volume, threshold) =>
          /\ (AboveBefore(j) = {} \/ j - Latest(AboveBefore(j)) >= releaseFrames)
                => analyzer.frames[j].mouthState = "closed"
          /\ analyzer.frames[j].mouthState = "open"
                => j - Latest(AboveBefore(j)) <= releaseFrames - 1

\* A call with a release of more than one frame has returned; it held the
\* mouth open below the threshold and closed it exactly releaseFrames
\* frames after the last frame above the threshold.
C39_Witness ==
    /\ analyzer.returned
    /\ releaseFrames > 1
    /\ \E j \in 2..Len(analyzer.frames) :
          /\ ~Above(analyzer.frames[j].volume, threshold)
          /\ AboveBefore(j) # {}
          /\ j - Latest(AboveBefore(j)) = releaseFrames
          /\ analyzer.frames[j].mouthState = "closed"
          /\ analyzer.frames[j - 1].mouthState = "open"
          /\ ~Above(analyzer.frames[j - 1].volume, threshold)

----------------------------------------------------------------------------
\* useAudioMouthSync (part_001)
\*
\* Time is counted in animation frames; volumes are thousandths of full
\* scale.  smoothingRef, lastVolumeRef and mouthStateRef are refs and
\* outlive an effect run; isActive belongs to one run, and the callbacks of
\* a run see that run's isActive.

MaxSyncFrames == 7      \* animation frames that are followed
MaxRestarts == 1        \* re-runs of the effect (another audio buffer)
Release == 3            \* the release option, in animation frames

SyncThreshold == DefaultThreshold
RmsValues == {0, 40}

\* smoothingRef.current * 0.7 + rms * 0.3
SyncSmooth(previous, rms) == (previous * 7 + rms * 3) \div 10

\* isActive as the callbacks of effect run `run` see it.
IsActive(run) == mouthSync.isActive /\ run = mouthSync.run

\* analyze() on a window of the given RMS at the given time.
analyze(m, rms, now) ==
    LET smoothedVolume == SyncSmooth(m.smoothing, rms)
        s == [m EXCEPT !.smoothing = smoothedVolume, !.clock = now]
    IN IF smoothedVolume > SyncThreshold
       THEN [s EXCEPT !.lastVolume = smoothedVolume, !.mouthState = "open",
                      !.lastAbove = now]
       ELSE IF s.lastVolume > SyncThreshold
       THEN [s EXCEPT !.timers = @ \cup {[due |-> now + Release, run |-> s.run]}]
       ELSE [s EXCEPT !.mouthState = "closed"]

\* The hook as mounted with an AudioBuffer: the effect has run and has
\* called analyze() once.
InitMouthSync ==
    /\ MainInit
    /\ SmoothIdle
    /\ AnalyzerIdle
    /\ SheetIdle
    /\ classifier = <<>>
    /\ gemini = <<>>
    /\ preview = <<>>
    /\ partEditor = <<>>
    /\ recorder = <<>>
    /\ \E rms \in RmsValues :
          mouthSync = analyze([isActive |-> TRUE, run |-> 0, mouthState |-> "closed",
                               smoothing |-> 0, lastVolume |-> 0, timers |-> {},
                               clock |-> 0, lastAbove |-> -1], rms, 0)

\* The requestAnimationFrame callback of the running effect.
AnalyzeFrame ==
    /\ mouthSync.isActive
    /\ mouthSync.clock < MaxSyncFrames
    /\ \E rms \in RmsValues :
          mouthSync' = analyze(mouthSync, rms, mouthSync.clock + 1)
    /\ UNCHANGED <<editorVars, animatorVars, pipelineVars, smoothVars, analyzerVars, sheetVars,
                   classifier, gemini, preview, partEditor, recorder>>

\* The callback of a setTimeout(..., release).
ReleaseTimerFires ==
    /\ \E t \in mouthSync.timers :
          /\ t.due <= mouthSync.clock
          /\ mouthSync' =
                [mouthSync EXCEPT
                    !.timers = @ \ {t},
                    !.mouthState = IF IsActive(t.run) /\ mouthSync.smoothing <= SyncThreshold
                                   THEN "closed" ELSE @]
    /\ UNCHANGED <<editorVars, animatorVars, pipelineVars, smoothVars, analyzerVars, sheetVars,
                   classifier, gemini, preview, partEditor, recorder>>

\* Another AudioBuffer is passed in: the cleanup of the running effect,
\* then the effect again, which calls analyze() right away.
SyncEffectRestarts ==
    /\ mouthSync.isActive
    /\ mouthSync.run < MaxRestarts
    /\ \E rms \in RmsValues :
          mouthSync' = analyze([mouthSync EXCEPT !.run = @ + 1], rms, mouthSync.clock)
    /\ UNCHANGED <<editorVars, animatorVars, pipelineVars, smoothVars, analyzerVars, sheetVars,
                   classifier, gemini, preview, partEditor, recorder>>

\* The component unmounts: the effect's cleanup.
SyncCleanup ==
    /\ mouthSync.isActive
    /\ mouthSync' = [mouthSync EXCEPT !.isActive = FALSE]
    /\ UNCHANGED <<editorVars, animatorVars, pipelineVars, smoothVars, analyzerVars, sheetVars,
                   classifier, gemini, preview, partEditor, recorder>>

NextMouthSync == AnalyzeFrame \/ ReleaseTimerFires \/ SyncEffectRestarts \/ SyncCleanup

SpecMouthSync == InitMouthSync /\ [][NextMouthSync]_vars

====
